--------------------------- MODULE Spec2Model ---------------------------
(***************************************************************************)
(* StackDaily backend: the daily orchestrator (DailyFlowService) with its   *)
(* streak bookkeeping, and the answer generator (AiAnswersService),        *)
(* modelled at the granularity of their awaits.  Every persistence call is *)
(* one atomic step of the store; between two awaits of one call the steps  *)
(* of another call may be taken.                                           *)
(*                                                                         *)
(* Store assumptions: a single-document findOneAndUpdate / updateOne is    *)
(* atomic, and an upsert whose filter is the key of a unique index is an   *)
(* atomic insert-if-absent.                                                *)
(***************************************************************************)
EXTENDS Integers, FiniteSets, Sequences, TLC

(* ------------------------------ bounds -------------------------------- *)
MaxNow == 1          \* the clock runs over 0..MaxNow
MaxSelects == 1      \* calls of QuestionsService.selectDailyQuestion
MaxMarkNow == 5      \* the clock of the streak specifications: 0..MaxMarkNow
MaxMarks == 3        \* calls of markAsRead
MaxGenCalls == 2     \* calls of generateForQuestion
MaxStaleMarks == 1   \* calls of markAsStale
MaxSends == 1        \* calls of sendToMultipleUsers

(* --------------------------- fixed catalogue -------------------------- *)
TicksPerDay == 2                 \* clock ticks in one calendar day
Null == -1                       \* an absent date / reference
\* the two invocations of runDailyFlow the design lets overlap: the one of
\* @Cron('0 5 * * *') and the one of triggerDailyFlow; each is made once
Runs == {"cron", "manual"}
activeTopics == <<1, 2>>         \* topicModel.find({isActive}).sort({sortOrder: 1})
Questions == {1, 2, 3}
topicOf == <<1, 1, 2>>           \* Question.topicId
Subscribers == {1}               \* users eligible for the notification of a topic
Users == {1}                     \* User collection
UserIds == {1, 2}                \* ids a request may carry; 2: no such user
SelectionIds == {1, 2}           \* ids a request may carry; 2: no such selection
MarkCallers == {"a", "b"}        \* requests of markAsRead that may overlap
MAX_RETRIES == 3                 \* attempts of one generateAnswer call
QuestionIds == {1, 2, 4}         \* ids a caller may pass; 4: no such question
GenCallers == {"nightly", "manual"}  \* callers of generateForQuestion
BASE_RETRY_DELAY_MS == 1000      \* back-off base of generateAnswer
Texts == {1, 2}                  \* answers the external API may return
DEFAULT_BATCH_DELAY_MS == 2000
DEFAULT_BATCH_SIZE == 10
\* AI_BATCH_SIZE as configService.get returns it: the number 10 when it is
\* not set, otherwise the string of the environment
BatchSizes ==
  {[n |-> DEFAULT_BATCH_SIZE, isString |-> FALSE],
   [n |-> 1, isString |-> TRUE]}
PushUsers == {1, 2, 3}           \* users the dispatcher may be given
Sentinel == 0                    \* fcmToken '__invalid__'
\* User.isActive and User.subscribedTopics of the three users
pushUser ==
  [u \in PushUsers |->
     [isActive |-> u # 3,
      subscribedTopics |-> IF u = 2 THEN {1} ELSE {1, 2}]]
FcmBatchLimitDefault == 500      \* configService.get('FCM_BATCH_LIMIT', 500)
\* fcmBatchLimit after construction: the number 500 when FCM_BATCH_LIMIT is
\* not set, otherwise the string of the environment (the key is not in the
\* validation schema, so nothing converts it)
BatchLimits ==
  {[n |-> FcmBatchLimitDefault, isString |-> FALSE],
   [n |-> 1, isString |-> TRUE], [n |-> 2, isString |-> TRUE]}
INVALID_TOKEN_CODES ==
  {"messaging/invalid-registration-token",
   "messaging/registration-token-not-registered"}
\* one entry of BatchResponse.responses
Accepted == [success |-> TRUE, code |-> "none", message |-> "none"]
Rejections ==
  {[success |-> FALSE, code |-> "messaging/registration-token-not-registered",
    message |-> "gone"],
   [success |-> FALSE, code |-> "messaging/internal-error",
    message |-> "internal"],
   [success |-> FALSE, code |-> "undefined", message |-> "undefined"]}
\* what chat.completions.create can do: answer with a text, or throw an
\* error that has an HTTP status (error.status ?? error.statusCode) and/or
\* a code
Successes == {[status |-> 200, code |-> "none", text |-> t] : t \in Texts}
Errors ==
  {[status |-> 400, code |-> "none", text |-> Null],
   [status |-> 429, code |-> "none", text |-> Null],
   [status |-> 500, code |-> "none", text |-> Null],
   [status |-> Null, code |-> "ECONNRESET", text |-> Null],
   [status |-> Null, code |-> "other", text |-> Null]}
Outcomes == Successes \cup Errors
NoError == [status |-> Null, code |-> "none", text |-> Null]
NotFound == [status |-> 404, code |-> "NotFoundException", text |-> Null]

VARIABLES
  now,          \* wall clock (ticks): the latest instant any caller has read
  questions,    \* Question collection: q -> [isActive, lastUsedDate, usageCount]
  aiAnswers,    \* AiAnswer collection: q -> [answer, isStale], one per question
  selections,   \* DailySelection collection (set of rows)
  nextId,       \* next _id the store hands out
  run,          \* per invocation of runDailyFlow: its locals and its position
  sel,          \* the selectDailyQuestion call in flight, if any
  selects,      \* selectDailyQuestion calls made so far
  claimN,       \* history: q -> number of claims that returned q
  lastClaimed,  \* history: topic -> question returned by the latest claim
  streak,       \* User.streak: u -> [count, lastActiveDate]
  mark,         \* per request of markAsRead: its locals and its position
  marks,        \* markAsRead calls made so far
  serial,       \* history: u -> streak after the calls so far, run one by one
  calendar,     \* history: u -> [count, lastDay] of the days with a call
  gen,          \* per caller of generateForQuestion: locals and position
  genCalls,     \* generateForQuestion calls made so far
  staleMarks,   \* markAsStale calls made so far
  extCalls,     \* history: caller -> external calls made by its current call
  genPrev,      \* history: caller -> how its previous call went
  outcomes,     \* history: caller -> outcomes of the attempts of its call
  waits,        \* history: caller -> back-off delays slept in its call
  fcmBatchLimit,  \* NotificationsService.fcmBatchLimit, set by the constructor
  fcmToken,     \* User.fcmToken: u -> token, Null or the sentinel
  logs,         \* NotificationLog collection, in insertion order
  send,         \* the sendToMultipleUsers call: its locals and its position
  sends,        \* sendToMultipleUsers calls made so far
  multicasts,   \* history: recipients of each sendEachForMulticast call
  aiBatchSize,  \* AI_BATCH_SIZE as nightlyGeneration reads it
  nightly,      \* the nightlyGeneration run: its locals and its position
  attempted,    \* history: questions the run passed to generateForQuestion
  response,     \* what the two trigger endpoints answered
  answerRows,   \* AiAnswer collection as documents: set of rows with _id
  zone,         \* ticks by which the server's local midnight follows UTC's
  stats,        \* what the last getDailyStats call returned
  payload       \* the payload runDailyFlow built for its last dispatch

flowVars == <<questions, selections, nextId, run, sel, selects, claimN,
              lastClaimed>>
streakVars == <<streak, mark, marks, serial, calendar>>
genVars == <<gen, genCalls, staleMarks, extCalls, genPrev, outcomes, waits>>

pushVars == <<fcmBatchLimit, fcmToken, logs, send, sends, multicasts>>

\* what the steps of one service leave alone
jobVars == <<aiBatchSize, nightly, attempted, response>>
docVars == <<answerRows, zone, stats, payload>>
outsideFlow == <<streakVars, genVars, pushVars, jobVars, docVars>>
outsideStreak == <<flowVars, genVars, pushVars, jobVars, docVars>>
outsideGen == <<flowVars, streakVars, pushVars, jobVars, docVars>>
outsidePush == <<aiAnswers, flowVars, streakVars, genVars, jobVars, docVars>>
outsideJob == <<flowVars, streakVars, pushVars, docVars>>

vars == <<now, aiAnswers, flowVars, streakVars, genVars, pushVars, jobVars,
          docVars>>

(* ------------------------------ helpers ------------------------------- *)
\* new Date().toISOString().split('T')[0]: the calendar day of an instant
getTodayDate(t) == t \div TicksPerDay

\* the instants a `new Date()` evaluated now or later can return
ClockReadings == now..MaxNow

\* FlowSummary: the two counters that tell how each topic ended; the other
\* fields (questionsSelected, notificationsSent, durationMs) are only logged
NoSummary == [topicsProcessed |-> 0, errors |-> 0]

\* the locals of runDailyFlow outside the topic body
IdleRun ==
  [pc |-> "idle", today |-> 0, idx |-> 1, claimTs |-> Null,
   selectedQuestion |-> Null, aiAnswerId |-> Null, dailySelectionId |-> Null,
   topicNotificationsSent |-> 0, summary |-> NoSummary, attempted |-> {}]

\* no selectDailyQuestion call is in flight
NoSelect == [pc |-> "idle", topicId |-> Null, ts |-> Null]

\* ascending sort on lastUsedDate; a missing (null) date sorts first
SortsBefore(a, b) ==
  IF a = Null THEN TRUE ELSE IF b = Null THEN FALSE ELSE a <= b

\* filter {topicId, isActive: true}
Candidates(t) == {q \in Questions : topicOf[q] = t /\ questions[q].isActive}

SelectFirstMutDesc(t) ==
  {q \in Candidates(t) :
     \A o \in Candidates(t) :
        SortsBefore(questions[o].lastUsedDate, questions[q].lastUsedDate)}

\* the documents findOneAndUpdate may pick under sort {lastUsedDate: 1}:
\* the order among equal keys is not specified by the store
SelectFirst(t) ==
  {q \in Candidates(t) :
     \A o \in Candidates(t) :
        SortsBefore(questions[q].lastUsedDate, questions[o].lastUsedDate)}

ClaimUpdateMutNoInc(doc, ts) == [doc EXCEPT !.lastUsedDate = ts]

ClaimUpdateMutDouble(doc, ts) ==
  [doc EXCEPT !.lastUsedDate = ts, !.usageCount = @ + 2]

\* { $set: { lastUsedDate: new Date() }, $inc: { usageCount: 1 } }
ClaimUpdate(doc, ts) ==
  [doc EXCEPT !.lastUsedDate = ts, !.usageCount = @ + 1]

NewSelection(id, d, t, q, a) ==
  [id |-> id, date |-> d, topicId |-> t, questionId |-> q, aiAnswerId |-> a,
   notificationsSent |-> 0]

\* filter {date, topicId}
Matching(rows, d, t) == {s \in rows : s.date = d /\ s.topicId = t}

UpsertSelectionMutInsert(rows, id, d, t, q, a) ==
  rows \cup {NewSelection(id, d, t, q, a)}

UpsertSelectionMutSet(rows, id, d, t, q, a) ==
  IF Matching(rows, d, t) = {}
    THEN rows \cup {NewSelection(id, d, t, q, a)}
    ELSE {IF s \in Matching(rows, d, t)
            THEN [s EXCEPT !.questionId = q, !.aiAnswerId = a] ELSE s
          : s \in rows}

\* updateOne({date, topicId}, {$setOnInsert: {...}}, {upsert: true}) under the
\* unique index {date: 1, topicId: 1}
UpsertSelection(rows, id, d, t, q, a) ==
  IF Matching(rows, d, t) = {}
    THEN rows \cup {NewSelection(id, d, t, q, a)}
    ELSE rows

\* where the loop goes after the body of topic number i ended
NextPcMutStop(i) == "done"

\* the loop takes the next topic, or the run is through
NextPc(i) == IF i < Len(activeTopics) THEN "claim" ELSE "done"

Bump(s, f, n) == [s EXCEPT ![f] = @ + n]

\* the body of topic number rec.idx ended: its block-scoped locals are gone
EndBody(rec, to) ==
  [rec EXCEPT !.pc = to, !.idx = @ + 1, !.claimTs = Null,
              !.selectedQuestion = Null, !.aiAnswerId = Null,
              !.dailySelectionId = Null, !.topicNotificationsSent = 0]

CatchTopicMutAbort(rec) ==
  EndBody([rec EXCEPT !.summary = Bump(@, "errors", 1)], "aborted")

\* catch (topicError) { ...; summary.errors++ }: the loop goes on
CatchTopic(rec) ==
  EndBody([rec EXCEPT !.summary = Bump(@, "errors", 1)], NextPc(rec.idx))

\* the AiAnswer of a question; _id of the document is modelled by the
\* questionId, which the unique index makes a key
NoAnswer == [answer |-> Null, isStale |-> FALSE]

AnswerOf(q) == IF q \in Questions THEN aiAnswers[q] ELSE NoAnswer

\* questions 1 and 3 were pre-generated, question 2 was not
InitAnswers ==
  [q \in Questions |->
     IF q = 2 THEN NoAnswer ELSE [answer |-> 1, isStale |-> FALSE]]

(* ------------------------- streak bookkeeping ------------------------- *)
\* the instants a `new Date()` of markAsRead can return
MarkReadings == now..MaxMarkNow

\* d.setDate(d.getDate() - 1); d.toISOString().split('T')[0], on a server
\* whose local days are all 24 hours long
getYesterdayDate(t) == getTodayDate(t - TicksPerDay)

\* new Date('YYYY-MM-DD'): midnight UTC of that day
DateOf(d) == d * TicksPerDay

\* User.streak defaults
NoStreak == [count |-> 0, lastActiveDate |-> Null]

IdleMark ==
  [pc |-> "idle", userId |-> Null, dailySelectionId |-> Null, today |-> 0,
   yesterday |-> 0, newCount |-> 0]

\* lines 485-487: the stored instant as 'YYYY-MM-DD', or null
lastActiveDay(s) ==
  IF s.lastActiveDate = Null THEN Null ELSE getTodayDate(s.lastActiveDate)

\* line 491
AlreadyActive(s, today) ==
  lastActiveDay(s) # Null /\ lastActiveDay(s) = today

\* lines 499-505
newCount(s, yesterday) ==
  IF lastActiveDay(s) # Null /\ lastActiveDay(s) = yesterday
    THEN s.count + 1
    ELSE 1

\* $set: {'streak.count': newCount, 'streak.lastActiveDate': new Date(today)}
StreakWrite(n, today) == [count |-> n, lastActiveDate |-> DateOf(today)]

\* the streak that markAsRead leaves when nothing runs between its read and
\* its write
markAsRead(s, today, yesterday) ==
  IF AlreadyActive(s, today) THEN s
  ELSE StreakWrite(newCount(s, yesterday), today)

\* the rule stated above markAsRead: same day no change, the day after the
\* last active day one more, otherwise 1
CalendarStep(c, d) ==
  IF c.lastDay = d THEN c
  ELSE IF c.lastDay # Null /\ c.lastDay = d - 1
    THEN [count |-> c.count + 1, lastDay |-> d]
    ELSE [count |-> 1, lastDay |-> d]

\* the call passes both findById checks
ValidMark(u, sid) == u \in Users /\ \E row \in selections : row.id = sid

MarkEnded(c) == mark[c].pc \in {"idle", "done", "failed"}

(* --------------------------- answer generator ------------------------- *)
IdleGen ==
  [pc |-> "idle", questionId |-> Null, attempt |-> 1, answer |-> Null,
   result |-> NoAnswer, lastError |-> NoError, error |-> NoError]

isRetryableErrorMutAbove(e) ==
  \/ e.status = 429
  \/ e.status # Null /\ e.status > 500
  \/ e.code \in {"ECONNRESET", "ETIMEDOUT", "ENOTFOUND", "EAI_AGAIN"}

\* isRetryableError, lines 484-503
isRetryableError(e) ==
  \/ e.status = 429
  \/ e.status # Null /\ e.status >= 500
  \/ e.code \in {"ECONNRESET", "ETIMEDOUT", "ENOTFOUND", "EAI_AGAIN"}

RECURSIVE Pow2(_)
Pow2(n) == IF n = 0 THEN 1 ELSE 2 * Pow2(n - 1)

delayMsMutNext(attempt) == BASE_RETRY_DELAY_MS * Pow2(attempt)

\* BASE_RETRY_DELAY_MS * Math.pow(2, attempt - 1)
delayMs(attempt) == BASE_RETRY_DELAY_MS * Pow2(attempt - 1)

NoPrev == [n |-> 0, questionId |-> Null, ok |-> FALSE, calls |-> 0,
           result |-> NoAnswer]

FreshAnswerMutNone(q) == FALSE

\* findOne({questionId, isStale: false}) finds a document
FreshAnswer(q) == AnswerOf(q) # NoAnswer /\ ~AnswerOf(q).isStale

\* $set: {answer, generatedAt, model, tokenCount, isStale: false}, upsert
SavedAnswer(text) == [answer |-> text, isStale |-> FALSE]

GenEnded(c) == gen[c].pc \in {"returned", "failed"}

(* ------------------------------ dispatcher ---------------------------- *)
RECURSIVE Digits(_)
Digits(n) == IF n < 10 THEN 1 ELSE 1 + Digits(n \div 10)

RECURSIVE Pow10(_)
Pow10(k) == IF k = 0 THEN 1 ELSE 10 * Pow10(k - 1)

\* number + string: the decimal digits of the number followed by the
\* string, which Array.prototype.slice reads back as a number
PlusString(a, l) == a * Pow10(Digits(l)) + l

\* batchStart + this.fcmBatchLimit, line 196
SliceEnd(start, limit) ==
  IF limit.isString THEN PlusString(start, limit.n) ELSE start + limit.n

Min(a, b) == IF a <= b THEN a ELSE b

\* Array.prototype.slice(a, b) with 0 <= a and 0 <= b
Slice(seq, a, b) ==
  IF a >= Min(b, Len(seq)) THEN <<>> ELSE SubSeq(seq, a + 1, Min(b, Len(seq)))

\* Math.ceil(n / limit), line 182
CeilDiv(n, l) == (n + l - 1) \div l

\* the batch of index i, lines 193-197
BatchOf(users, i, limit) ==
  Slice(users, i * limit.n, SliceEnd(i * limit.n, limit))

\* `${errorCode}: ${errorMessage}`
ErrorString(code, message) == <<code, message>>

\* (error as {code?}).code ?? 'unknown', and message ?? 'Unknown error'
errorCode(r) == IF r.code = "undefined" THEN "unknown" ELSE r.code

errorMessage(r) ==
  IF r.message = "undefined" THEN "Unknown error" ELSE r.message

LogEntryMutPending(user, sid, r, at) ==
  IF r.success
    THEN [userId |-> user.userId, dailySelectionId |-> sid,
          status |-> "pending", error |-> <<>>, sentAt |-> at]
    ELSE [userId |-> user.userId, dailySelectionId |-> sid,
          status |-> "failed",
          error |-> ErrorString(errorCode(r), errorMessage(r)),
          sentAt |-> at]

\* lines 217-246: the log entry built from the response for one recipient
LogEntry(user, sid, r, at) ==
  IF r.success
    THEN [userId |-> user.userId, dailySelectionId |-> sid,
          status |-> "sent", error |-> <<>>, sentAt |-> at]
    ELSE [userId |-> user.userId, dailySelectionId |-> sid,
          status |-> "failed",
          error |-> ErrorString(errorCode(r), errorMessage(r)),
          sentAt |-> at]

\* lines 283-289: the log entry of a recipient of a batch that threw
FailedEntry(user, sid, at) ==
  [userId |-> user.userId, dailySelectionId |-> sid, status |-> "failed",
   error |-> ErrorString("batch_error", "down"), sentAt |-> at]

\* what the gateway can answer for one token: it accepts only a token that
\* some device registered
Answers(token) ==
  IF token = Sentinel \/ token = Null THEN Rejections
  ELSE {Accepted} \cup Rejections

IdleSend ==
  [pc |-> "idle", users |-> <<>>, dailySelectionId |-> Null, batchIndex |-> 0,
   totalBatches |-> 0, totalSent |-> 0, totalFailed |-> 0,
   batchUsers |-> <<>>, responses |-> <<>>, firstLog |-> 0,
   caller |-> "none", topicId |-> Null]

\* BatchResponse.successCount and failureCount
successCount(rs) == Cardinality({i \in 1..Len(rs) : rs[i].success})

failureCount(rs) == Cardinality({i \in 1..Len(rs) : ~rs[i].success})

\* the loop passes to the batch after rec.batchIndex, or the call returns
NextBatch(rec, limit) ==
  IF rec.batchIndex + 1 < rec.totalBatches
    THEN [rec EXCEPT !.pc = "multicast", !.batchIndex = @ + 1,
                     !.batchUsers = BatchOf(rec.users, rec.batchIndex + 1,
                                            limit),
                     !.responses = <<>>]
    ELSE [rec EXCEPT !.pc = "returned", !.batchIndex = @ + 1,
                     !.batchUsers = <<>>, !.responses = <<>>]

\* lines 264-265: the totals take the counts of the batch response
FinishBatch(rec, limit) ==
  NextBatch([rec EXCEPT !.totalSent = @ + successCount(rec.responses),
                        !.totalFailed = @ + failureCount(rec.responses)],
            limit)

\* users whose response carries an invalid-token code, lines 238-240
invalidUserIds(rec) ==
  {rec.batchUsers[i].userId : i \in
     {j \in 1..Len(rec.batchUsers) :
        /\ ~rec.responses[j].success
        /\ errorCode(rec.responses[j]) \in INVALID_TOKEN_CODES}}

(* --------------------------- nightlyGeneration ------------------------ *)
IdleNightly ==
  [pc |-> "idle", questionsToProcess |-> <<>>, total |-> 0, i |-> 0,
   batch |-> <<>>, pos |-> 0, succeeded |-> 0, failed |-> 0, slept |-> 0]

NoResponse == [daily |-> "none", batch |-> "none"]

\* the service running with AI_BATCH_SIZE not set
NumberSize == [n |-> DEFAULT_BATCH_SIZE, isString |-> FALSE]

\* before the first dispatch of a run
NoPayload == [title |-> Null, body |-> <<>>, data |-> <<>>]

\* before the first call of getDailyStats
NoStats ==
  [date |-> Null, topicsWithContent |-> 0, totalNotificationsSent |-> 0,
   breakdown |-> <<>>]

(* ----------------------- AiAnswer documents -------------------------- *)
\* the documents behind an answer map, _id taken from the question
RowsOf(ans) ==
  {[id |-> q, questionId |-> q, answer |-> ans[q].answer,
    isStale |-> ans[q].isStale] : q \in {x \in Questions : ans[x] # NoAnswer}}

\* what findOne({questionId}) sees in a set of documents
ViewOf(rows) ==
  [q \in Questions |->
     IF \E r \in rows : r.questionId = q
       THEN LET r == CHOOSE x \in rows : x.questionId = q
            IN [answer |-> r.answer, isStale |-> r.isStale]
       ELSE NoAnswer]

(* ------------------------------- Init --------------------------------- *)
\* three active questions never used
InitQuestions ==
  [q \in Questions |->
     [isActive |-> TRUE, lastUsedDate |-> Null, usageCount |-> 0]]

InitData ==
  /\ now = 0
  /\ selections = {}
  /\ nextId = 1
  /\ run = [r \in Runs |-> IdleRun]
  /\ sel = NoSelect
  /\ selects = 0
  /\ claimN = [q \in Questions |-> 0]
  /\ lastClaimed = [i \in 1..Len(activeTopics) |-> Null]
  /\ streak = [u \in Users |-> NoStreak]
  /\ mark = [c \in MarkCallers |-> IdleMark]
  /\ marks = 0
  /\ serial = [u \in Users |-> NoStreak]
  /\ calendar = [u \in Users |-> [count |-> 0, lastDay |-> Null]]
  /\ gen = [c \in GenCallers |-> IdleGen]
  /\ genCalls = 0
  /\ staleMarks = 0
  /\ extCalls = [c \in GenCallers |-> 0]
  /\ genPrev = [c \in GenCallers |-> NoPrev]
  /\ outcomes = [c \in GenCallers |-> <<>>]
  /\ waits = [c \in GenCallers |-> <<>>]
  /\ logs = <<>>
  /\ send = IdleSend
  /\ sends = 0
  /\ multicasts = <<>>
  /\ nightly = IdleNightly
  /\ attempted = <<>>
  /\ response = NoResponse

\* the service constructed without FCM_BATCH_LIMIT in the environment
NumberLimit == [n |-> FcmBatchLimitDefault, isString |-> FALSE]

\* every user holds the token of a device
AllRegistered == [u \in PushUsers |-> 1]

Init ==
  /\ InitData
  /\ questions = InitQuestions
  /\ aiAnswers = InitAnswers
  /\ fcmBatchLimit = NumberLimit
  /\ fcmToken = AllRegistered
  /\ aiBatchSize = NumberSize
  /\ answerRows = RowsOf(aiAnswers)
  /\ zone = 0
  /\ stats = NoStats
  /\ payload = NoPayload

\* the service constructed with or without FCM_BATCH_LIMIT
\* tokens a user document can hold: a device token, the sentinel left by an
\* earlier dispatch, or null after a cleanup or before any registration
InitTokens ==
  {t \in [PushUsers -> {1, Sentinel, Null}] : t[1] = 1 /\ t[3] # Sentinel}

\* the service constructed with or without FCM_BATCH_LIMIT
InitPush ==
  /\ InitData
  /\ questions = InitQuestions
  /\ aiAnswers = InitAnswers
  /\ fcmBatchLimit \in BatchLimits
  /\ fcmToken \in InitTokens
  /\ aiBatchSize = NumberSize
  /\ answerRows = RowsOf(aiAnswers)
  /\ zone = 0
  /\ stats = NoStats
  /\ payload = NoPayload

(* ------------------------------ actions ------------------------------- *)
\* runDailyFlow is entered (cron or manual trigger): lines 97-112
StartRun(r) ==
  /\ run[r].pc = "idle"
  /\ \E t \in ClockReadings :
       /\ now' = t
       /\ run' = [run EXCEPT ![r] = [IdleRun EXCEPT !.pc = "topics",
                                       !.today = getTodayDate(t)]]
  /\ UNCHANGED <<sel, selects, questions, aiAnswers, selections, nextId,
                 claimN, lastClaimed, outsideFlow>>

\* Step 1, lines 116-130: the active topics are read
LoadTopics(r) ==
  /\ run[r].pc = "topics"
  /\ run' = [run EXCEPT ![r].pc = "claim"]
  /\ UNCHANGED <<sel, selects, now, questions, aiAnswers, selections, nextId,
                 claimN, lastClaimed, outsideFlow>>

\* the topic query throws: outer catch, lines 314-321
LoadTopicsFail(r) ==
  /\ run[r].pc = "topics"
  /\ run' = [run EXCEPT ![r].pc = "aborted"]
  /\ UNCHANGED <<sel, selects, now, questions, aiAnswers, selections, nextId,
                 claimN, lastClaimed, outsideFlow>>

\* Step 2, lines 140-156, client side: the update document is built with
\* `new Date()` and the findOneAndUpdate is sent
ClaimIssue(r) ==
  /\ run[r].pc = "claim"
  /\ \E t \in ClockReadings :
       /\ now' = t
       /\ run' = [run EXCEPT ![r].pc = "claiming", ![r].claimTs = t,
                    ![r].attempted = @ \cup {activeTopics[run[r].idx]}]
  /\ UNCHANGED <<sel, selects, questions, aiAnswers, selections, nextId,
                 claimN, lastClaimed, outsideFlow>>

\* Step 2, store side: the findOneAndUpdate executes atomically and returns
\* the document as it was before the update (new: false); lines 158-169
ClaimApply(r) ==
  /\ run[r].pc = "claiming"
  /\ LET t == activeTopics[run[r].idx] IN
       IF SelectFirst(t) = {}
         THEN /\ run' = [run EXCEPT ![r] =
                   EndBody([@ EXCEPT !.summary = Bump(@, "errors", 1)],
                           NextPc(run[r].idx))]
              /\ UNCHANGED <<questions, claimN, lastClaimed>>
         ELSE \E q \in SelectFirst(t) :
                /\ questions' = [questions EXCEPT
                                   ![q] = ClaimUpdate(@, run[r].claimTs)]
                /\ run' = [run EXCEPT ![r].pc = "answer",
                             ![r].selectedQuestion = q]
                /\ claimN' = [claimN EXCEPT ![q] = @ + 1]
                /\ lastClaimed' = [lastClaimed EXCEPT ![t] = q]
  /\ UNCHANGED <<sel, selects, now, aiAnswers, selections, nextId, outsideFlow>>

\* Step 3, lines 180-200
AnswerLookup(r) ==
  /\ run[r].pc = "answer"
  /\ run' = [run EXCEPT ![r].pc = "upsert",
               ![r].aiAnswerId =
                 IF AnswerOf(run[r].selectedQuestion) # NoAnswer
                   THEN run[r].selectedQuestion ELSE Null]
  /\ UNCHANGED <<sel, selects, now, questions, aiAnswers, selections, nextId,
                 claimN, lastClaimed, outsideFlow>>

\* Step 4, lines 203-219
UpsertStep(r) ==
  /\ run[r].pc = "upsert"
  /\ selections' = UpsertSelection(selections, nextId, run[r].today,
                                   activeTopics[run[r].idx],
                                   run[r].selectedQuestion, run[r].aiAnswerId)
  /\ nextId' = IF selections' = selections THEN nextId ELSE nextId + 1
  /\ run' = [run EXCEPT ![r].pc = "readback"]
  /\ UNCHANGED <<sel, selects, now, questions, aiAnswers, claimN, lastClaimed,
                 outsideFlow>>

\* lines 222-237
ReadBack(r) ==
  /\ run[r].pc = "readback"
  /\ LET found == Matching(selections, run[r].today,
                           activeTopics[run[r].idx]) IN
       IF found = {}
         THEN run' = [run EXCEPT ![r] =
                EndBody([@ EXCEPT !.summary = Bump(@, "errors", 1)],
                        NextPc(run[r].idx))]
         ELSE \E s \in found :
                run' = [run EXCEPT ![r].pc = "dispatch",
                          ![r].dailySelectionId = s.id]
  /\ UNCHANGED <<sel, selects, now, questions, aiAnswers, selections, nextId,
                 claimN, lastClaimed, outsideFlow>>

\* Steps 5+6, lines 261-269: sendDailyNotifications returns {sent, failed}
Dispatch(r) ==
  /\ run[r].pc = "dispatch"
  /\ \E n \in 0..Cardinality(Subscribers) :
       run' = [run EXCEPT ![r].pc = "counter",
                 ![r].topicNotificationsSent = n]
  /\ UNCHANGED <<sel, selects, now, questions, aiAnswers, selections, nextId,
                 claimN, lastClaimed, outsideFlow>>

\* lines 270-277: sendDailyNotifications throws; the inner catch counts it
DispatchFail(r) ==
  /\ run[r].pc = "dispatch"
  /\ run' = [run EXCEPT ![r].pc = "counter",
               ![r].summary = Bump(@, "errors", 1)]
  /\ UNCHANGED <<sel, selects, now, questions, aiAnswers, selections, nextId,
                 claimN, lastClaimed, outsideFlow>>

\* lines 280-294
UpdateCounter(r) ==
  /\ run[r].pc = "counter"
  /\ selections' =
       {IF s.id = run[r].dailySelectionId
          THEN [s EXCEPT !.notificationsSent =
                           @ + run[r].topicNotificationsSent]
          ELSE s : s \in selections}
  /\ run' = [run EXCEPT ![r] =
       EndBody([@ EXCEPT !.summary = Bump(@, "topicsProcessed", 1)],
               NextPc(run[r].idx))]
  /\ UNCHANGED <<sel, selects, now, questions, aiAnswers, nextId, claimN,
                 lastClaimed, outsideFlow>>

\* a persistence call inside the topic body throws: lines 295-304
TopicFail(r) ==
  /\ run[r].pc \in {"claiming", "answer", "upsert", "readback", "counter"}
  /\ run' = [run EXCEPT ![r] = CatchTopic(@)]
  /\ UNCHANGED <<sel, selects, now, questions, aiAnswers, selections, nextId,
                 claimN, lastClaimed, outsideFlow>>

\* QuestionsService.selectDailyQuestion(topicId), client side: the update
\* document is built with `new Date()` and the findOneAndUpdate is sent
SelectIssue(t) ==
  /\ sel.pc = "idle"
  /\ selects < MaxSelects
  /\ selects' = selects + 1
  /\ \E ts \in ClockReadings :
       /\ now' = ts
       /\ sel' = [pc |-> "claiming", topicId |-> t, ts |-> ts]
  /\ UNCHANGED <<questions, aiAnswers, selections, nextId, run, claimN,
                 lastClaimed, outsideFlow>>

\* selectDailyQuestion, store side: the same atomic findOneAndUpdate; with no
\* active question the call throws NotFound
SelectApply ==
  /\ sel.pc = "claiming"
  /\ sel' = NoSelect
  /\ IF SelectFirst(sel.topicId) = {}
       THEN UNCHANGED <<questions, claimN, lastClaimed>>
       ELSE \E q \in SelectFirst(sel.topicId) :
              /\ questions' = [questions EXCEPT ![q] = ClaimUpdate(@, sel.ts)]
              /\ claimN' = [claimN EXCEPT ![q] = @ + 1]
              /\ lastClaimed' = [lastClaimed EXCEPT ![sel.topicId] = q]
  /\ UNCHANGED <<now, aiAnswers, selections, nextId, run, selects, outsideFlow>>

Next ==
  \/ \E r \in Runs : StartRun(r)
  \/ \E r \in Runs : LoadTopics(r)
  \/ \E r \in Runs : LoadTopicsFail(r)
  \/ \E r \in Runs : ClaimIssue(r)
  \/ \E r \in Runs : ClaimApply(r)
  \/ \E r \in Runs : AnswerLookup(r)
  \/ \E r \in Runs : UpsertStep(r)
  \/ \E r \in Runs : ReadBack(r)
  \/ \E r \in Runs : Dispatch(r)
  \/ \E r \in Runs : DispatchFail(r)
  \/ \E r \in Runs : UpdateCounter(r)
  \/ \E r \in Runs : TopicFail(r)

Spec == Init /\ [][Next]_vars

\* the orchestrator without injected failures, next to callers of
\* QuestionsService.selectDailyQuestion
NextLRU ==
  \/ \E r \in Runs : StartRun(r)
  \/ \E r \in Runs : LoadTopics(r)
  \/ \E r \in Runs : ClaimIssue(r)
  \/ \E r \in Runs : ClaimApply(r)
  \/ \E r \in Runs : AnswerLookup(r)
  \/ \E r \in Runs : UpsertStep(r)
  \/ \E r \in Runs : ReadBack(r)
  \/ \E r \in Runs : Dispatch(r)
  \/ \E r \in Runs : UpdateCounter(r)
  \/ \E t \in 1..Len(activeTopics) : SelectIssue(activeTopics[t])
  \/ SelectApply

SpecLRU == Init /\ [][NextLRU]_vars

(* ----------------------- markAsRead, lines 454-531 -------------------- *)
\* lines 455-456: getTodayDate() and getYesterdayDate() read the clock one
\* after the other; the request carries userId and dailySelectionId
MarkStart(c) ==
  /\ MarkEnded(c)
  /\ marks < MaxMarks
  /\ marks' = marks + 1
  /\ \E u \in UserIds : \E sid \in SelectionIds :
     \E t1 \in MarkReadings : \E t2 \in t1..MaxMarkNow :
       LET today == getTodayDate(t1)
           yesterday == getYesterdayDate(t2) IN
       /\ now' = t2
       /\ mark' = [mark EXCEPT ![c] =
                     [IdleMark EXCEPT !.pc = "selection", !.userId = u,
                                      !.dailySelectionId = sid,
                                      !.today = today,
                                      !.yesterday = yesterday]]
       /\ IF ValidMark(u, sid)
            THEN /\ serial' = [serial EXCEPT
                                 ![u] = markAsRead(@, today, yesterday)]
                 /\ calendar' = [calendar EXCEPT
                                   ![u] = CalendarStep(@, today)]
            ELSE UNCHANGED <<serial, calendar>>
  /\ UNCHANGED <<streak, aiAnswers, outsideStreak>>

\* a request that is accepted only while no other request is in flight
MarkStartAlone(c) ==
  /\ \A o \in MarkCallers : MarkEnded(o)
  /\ MarkStart(c)

MarkFindSelectionMutSkip(c) ==
  /\ mark[c].pc = "selection"
  /\ mark' = [mark EXCEPT ![c].pc = "user"]
  /\ UNCHANGED <<now, streak, marks, serial, calendar, aiAnswers, outsideStreak>>

\* lines 465-476: dailySelectionModel.findById
MarkFindSelection(c) ==
  /\ mark[c].pc = "selection"
  /\ mark' = [mark EXCEPT ![c].pc =
                IF \E row \in selections : row.id = mark[c].dailySelectionId
                  THEN "user" ELSE "failed"]
  /\ UNCHANGED <<now, streak, marks, serial, calendar, aiAnswers, outsideStreak>>

\* lines 479-510: userModel.findById(userId).select('streak'), then the
\* count to write is computed from the streak that was read
MarkFindUser(c) ==
  /\ mark[c].pc = "user"
  /\ IF mark[c].userId \notin Users
       THEN mark' = [mark EXCEPT ![c].pc = "failed"]
       ELSE LET s == streak[mark[c].userId] IN
            IF AlreadyActive(s, mark[c].today)
              THEN mark' = [mark EXCEPT ![c].pc = "done"]
              ELSE mark' = [mark EXCEPT ![c].pc = "write",
                              ![c].newCount = newCount(s, mark[c].yesterday)]
  /\ UNCHANGED <<now, streak, marks, serial, calendar, aiAnswers, outsideStreak>>

\* lines 512-522: findOneAndUpdate({_id}, {$set: {...}})
MarkWrite(c) ==
  /\ mark[c].pc = "write"
  /\ streak' = [streak EXCEPT ![mark[c].userId] =
                  StreakWrite(mark[c].newCount, mark[c].today)]
  /\ mark' = [mark EXCEPT ![c].pc = "done"]
  /\ UNCHANGED <<now, marks, serial, calendar, aiAnswers, outsideStreak>>

\* a day's selection exists, as after a completed run of the daily flow
InitStreak ==
  /\ now = 0
  /\ questions = [q \in Questions |->
                    [isActive |-> TRUE, lastUsedDate |-> Null,
                     usageCount |-> 0]]
  /\ aiAnswers = InitAnswers
  /\ selections = {NewSelection(1, 0, 1, 1, 1)}
  /\ nextId = 2
  /\ run = [r \in Runs |-> IdleRun]
  /\ sel = NoSelect
  /\ selects = 0
  /\ claimN = [q \in Questions |-> 0]
  /\ lastClaimed = [i \in 1..Len(activeTopics) |-> Null]
  /\ streak = [u \in Users |-> NoStreak]
  /\ mark = [c \in MarkCallers |-> IdleMark]
  /\ marks = 0
  /\ serial = [u \in Users |-> NoStreak]
  /\ calendar = [u \in Users |-> [count |-> 0, lastDay |-> Null]]
  /\ gen = [c \in GenCallers |-> IdleGen]
  /\ genCalls = 0
  /\ staleMarks = 0
  /\ extCalls = [c \in GenCallers |-> 0]
  /\ genPrev = [c \in GenCallers |-> NoPrev]
  /\ outcomes = [c \in GenCallers |-> <<>>]
  /\ waits = [c \in GenCallers |-> <<>>]
  /\ fcmBatchLimit = NumberLimit
  /\ fcmToken = [u \in PushUsers |-> 1]
  /\ logs = <<>>
  /\ send = IdleSend
  /\ sends = 0
  /\ multicasts = <<>>
  /\ aiBatchSize = NumberSize
  /\ answerRows = RowsOf(aiAnswers)
  /\ zone = 0
  /\ stats = NoStats
  /\ payload = NoPayload
  /\ nightly = IdleNightly
  /\ attempted = <<>>
  /\ response = NoResponse

\* requests of markAsRead that overlap freely
NextStreak ==
  \/ \E c \in MarkCallers : MarkStart(c)
  \/ \E c \in MarkCallers : MarkFindSelection(c)
  \/ \E c \in MarkCallers : MarkFindUser(c)
  \/ \E c \in MarkCallers : MarkWrite(c)

SpecStreak == InitStreak /\ [][NextStreak]_vars

\* requests of markAsRead made one after the other
NextStreakSeq ==
  \/ \E c \in MarkCallers : MarkStartAlone(c)
  \/ \E c \in MarkCallers : MarkFindSelection(c)
  \/ \E c \in MarkCallers : MarkFindUser(c)
  \/ \E c \in MarkCallers : MarkWrite(c)

SpecStreakSeq == InitStreak /\ [][NextStreakSeq]_vars

(* ------------- generateForQuestion, AiAnswersService 218-278 ---------- *)
\* generateForQuestion(q) is entered by caller c
GenCall(c, q) ==
  /\ gen[c].pc = "idle" \/ GenEnded(c)
  /\ gen' = [gen EXCEPT ![c] = [IdleGen EXCEPT !.pc = "lookup",
                                              !.questionId = q]]
  /\ genPrev' = [genPrev EXCEPT ![c] =
       IF GenEnded(c)
         THEN [n |-> @.n + 1, questionId |-> gen[c].questionId,
               ok |-> gen[c].pc = "returned", calls |-> extCalls[c],
               result |-> gen[c].result]
         ELSE @]
  /\ extCalls' = [extCalls EXCEPT ![c] = 0]
  /\ outcomes' = [outcomes EXCEPT ![c] = <<>>]
  /\ waits' = [waits EXCEPT ![c] = <<>>]

\* POST generate/:questionId, or any other caller of generateForQuestion
GenStart(c) ==
  /\ genCalls < MaxGenCalls
  /\ genCalls' = genCalls + 1
  /\ \E q \in QuestionIds : GenCall(c, q)
  /\ UNCHANGED <<staleMarks, now, aiAnswers, outsideGen>>

\* lines 220-233: findOne({questionId, isStale: false}); a fresh answer is
\* returned as it is
GenLookup(c) ==
  /\ gen[c].pc = "lookup"
  /\ gen' = [gen EXCEPT ![c] =
       IF FreshAnswer(gen[c].questionId)
         THEN [@ EXCEPT !.pc = "returned",
                        !.result = AnswerOf(gen[c].questionId)]
         ELSE [@ EXCEPT !.pc = "question"]]
  /\ UNCHANGED <<genCalls, staleMarks, extCalls, genPrev, outcomes, waits,
                 now, aiAnswers, outsideGen>>

\* lines 236-245: questionModel.findById; NotFound when there is none
GenLoadQuestion(c) ==
  /\ gen[c].pc = "question"
  /\ gen' = [gen EXCEPT ![c] =
       IF gen[c].questionId \in Questions
         THEN [@ EXCEPT !.pc = "attempt"]
         ELSE [@ EXCEPT !.pc = "failed", !.error = NotFound]]
  /\ UNCHANGED <<genCalls, staleMarks, extCalls, genPrev, outcomes, waits,
                 now, aiAnswers, outsideGen>>

\* generateAnswer, lines 155-193: one chat.completions.create and what the
\* loop does with its outcome
GenAttempt(c) ==
  /\ gen[c].pc = "attempt"
  /\ extCalls' = [extCalls EXCEPT ![c] = @ + 1]
  /\ \E o \in Outcomes :
       /\ outcomes' = [outcomes EXCEPT ![c] = Append(@, o)]
       /\ gen' = [gen EXCEPT ![c] =
            IF o \in Successes
              THEN [@ EXCEPT !.pc = "save", !.answer = o.text]
            ELSE IF ~isRetryableError(o) \/ gen[c].attempt = MAX_RETRIES
              THEN [@ EXCEPT !.pc = "failed", !.lastError = o, !.error = o]
              ELSE [@ EXCEPT !.pc = "sleep", !.lastError = o]]
  /\ UNCHANGED <<genCalls, staleMarks, genPrev, waits, now, aiAnswers,
                 outsideGen>>

\* lines 191-192: the back-off sleep ends and the loop takes the next attempt
GenSleep(c) ==
  /\ gen[c].pc = "sleep"
  /\ gen' = [gen EXCEPT ![c].pc = "attempt", ![c].attempt = @ + 1]
  /\ waits' = [waits EXCEPT ![c] = Append(@, delayMs(gen[c].attempt))]
  /\ UNCHANGED <<genCalls, staleMarks, extCalls, genPrev, outcomes, now,
                 aiAnswers, outsideGen>>

\* lines 257-269: findOneAndUpdate({questionId}, {$set}, {upsert, new})
GenSave(c) ==
  /\ gen[c].pc = "save"
  /\ aiAnswers' = [aiAnswers EXCEPT
                     ![gen[c].questionId] = SavedAnswer(gen[c].answer)]
  /\ gen' = [gen EXCEPT ![c].pc = "returned",
               ![c].result = SavedAnswer(gen[c].answer)]
  /\ UNCHANGED <<genCalls, staleMarks, extCalls, genPrev, outcomes, waits,
                 now, outsideGen>>

\* markAsStale(questionId), lines 307-323: updateOne({questionId},
\* {$set: {isStale: true}}); without a document nothing is written
MarkAsStale(q) ==
  /\ staleMarks < MaxStaleMarks
  /\ staleMarks' = staleMarks + 1
  /\ aiAnswers' = IF AnswerOf(q) = NoAnswer THEN aiAnswers
                  ELSE [aiAnswers EXCEPT ![q].isStale = TRUE]
  /\ UNCHANGED <<gen, genCalls, extCalls, genPrev, outcomes, waits, now,
                 outsideGen>>

NextGen ==
  \/ \E c \in GenCallers : GenStart(c)
  \/ \E c \in GenCallers : GenLookup(c)
  \/ \E c \in GenCallers : GenLoadQuestion(c)
  \/ \E c \in GenCallers : GenAttempt(c)
  \/ \E c \in GenCallers : GenSleep(c)
  \/ \E c \in GenCallers : GenSave(c)
  \/ \E q \in Questions : MarkAsStale(q)

SpecGen == Init /\ [][NextGen]_vars

\* one caller that makes its calls one after the other
NextGenSeq ==
  \/ GenStart("manual")
  \/ GenLookup("manual")
  \/ GenLoadQuestion("manual")
  \/ GenAttempt("manual")
  \/ GenSleep("manual")
  \/ GenSave("manual")
  \/ \E q \in Questions : MarkAsStale(q)

SpecGenSeq == Init /\ [][NextGenSeq]_vars

(* -------- NotificationsService.sendToMultipleUsers, lines 176-307 ------ *)
\* the first n users as BatchUserEntry values, tokens as stored now
RECURSIVE Entries(_, _)
Entries(us, tok) ==
  IF us = {} THEN <<>>
  ELSE LET u == CHOOSE x \in us : \A y \in us : x <= y
       IN <<[userId |-> u, fcmToken |-> tok[u]]>> \o Entries(us \ {u}, tok)

UserIdsOf(entries) == [i \in 1..Len(entries) |-> entries[i].userId]

\* lines 181-193: the totals start at zero and the loop enters batch 0
SendCall(users, sid, caller, topic) ==
  LET total == CeilDiv(Len(users), fcmBatchLimit.n)
      rec == [IdleSend EXCEPT !.users = users, !.dailySelectionId = sid,
                              !.totalBatches = total,
                              !.firstLog = Len(logs),
                              !.caller = caller, !.topicId = topic]
  IN /\ send.pc = "idle"
     /\ sends < MaxSends
     /\ sends' = sends + 1
     /\ send' = IF total = 0 THEN [rec EXCEPT !.pc = "returned"]
                ELSE [rec EXCEPT !.pc = "multicast",
                                 !.batchUsers =
                                   BatchOf(users, 0, fcmBatchLimit)]
     /\ UNCHANGED <<now, fcmBatchLimit, fcmToken, logs, multicasts,
                    outsidePush>>

\* a caller passes a list of users that hold a token
SendStart ==
  \E n \in 0..Cardinality(PushUsers), sid \in SelectionIds :
    /\ \A u \in 1..n : fcmToken[u] \notin {Null, Sentinel}
    /\ SendCall(Entries(1..n, fcmToken), sid, "direct", Null)

\* lines 211-213: sendEachForMulticast answers with one response per token
Multicast ==
  /\ send.pc = "multicast"
  /\ \E rs \in [1..Len(send.batchUsers) -> {Accepted} \cup Rejections] :
       /\ \A i \in 1..Len(send.batchUsers) :
            rs[i] \in Answers(send.batchUsers[i].fcmToken)
       /\ send' = [send EXCEPT !.pc = "insert", !.responses = rs]
  /\ multicasts' = Append(multicasts, UserIdsOf(send.batchUsers))
  /\ UNCHANGED <<now, fcmBatchLimit, fcmToken, logs, sends, outsidePush>>

\* lines 211-213: sendEachForMulticast throws
MulticastThrows ==
  /\ send.pc = "multicast"
  /\ send' = [send EXCEPT !.pc = "catch"]
  /\ multicasts' = Append(multicasts, UserIdsOf(send.batchUsers))
  /\ UNCHANGED <<now, fcmBatchLimit, fcmToken, logs, sends, outsidePush>>

logEntriesMutUnstamped(rec, at) ==
  [i \in 1..Len(rec.batchUsers) |->
     LogEntry(rec.batchUsers[i], Null, rec.responses[i], at)]

\* lines 217-246: one entry per recipient of the batch
logEntries(rec, at) ==
  [i \in 1..Len(rec.batchUsers) |->
     LogEntry(rec.batchUsers[i], rec.dailySelectionId, rec.responses[i], at)]

\* lines 218-255: the entries are inserted, then the invalid tokens are
\* flagged when there are any
InsertLogs ==
  /\ send.pc = "insert"
  /\ logs' = logs \o logEntries(send, now)
  /\ send' = IF invalidUserIds(send) # {}
               THEN [send EXCEPT !.pc = "bulkMark"]
               ELSE FinishBatch(send, fcmBatchLimit)
  /\ UNCHANGED <<now, fcmBatchLimit, fcmToken, sends, multicasts,
                 outsidePush>>

\* line 252: insertMany throws after it stored some of the entries
InsertThrows ==
  /\ send.pc = "insert"
  /\ \E k \in 0..Len(send.batchUsers) :
       logs' = logs \o SubSeq(logEntries(send, now), 1, k)
  /\ send' = [send EXCEPT !.pc = "catch"]
  /\ UNCHANGED <<now, fcmBatchLimit, fcmToken, sends, multicasts,
                 outsidePush>>

\* lines 522-531
bulkMarkTokensInvalid(tok, ids) ==
  [u \in PushUsers |-> IF u \in ids THEN Sentinel ELSE tok[u]]

\* lines 255-265
BulkMark ==
  /\ send.pc = "bulkMark"
  /\ fcmToken' = bulkMarkTokensInvalid(fcmToken, invalidUserIds(send))
  /\ send' = FinishBatch(send, fcmBatchLimit)
  /\ UNCHANGED <<now, fcmBatchLimit, logs, sends, multicasts, outsidePush>>

\* line 256: the updateMany throws, applied or not
BulkMarkThrows ==
  /\ send.pc = "bulkMark"
  /\ \/ fcmToken' = bulkMarkTokensInvalid(fcmToken, invalidUserIds(send))
     \/ fcmToken' = fcmToken
  /\ send' = [send EXCEPT !.pc = "catch"]
  /\ UNCHANGED <<now, fcmBatchLimit, logs, sends, multicasts, outsidePush>>

failedEntries(rec, at) ==
  [i \in 1..Len(rec.batchUsers) |->
     FailedEntry(rec.batchUsers[i], rec.dailySelectionId, at)]

\* lines 274-296
CatchBatch ==
  /\ send.pc = "catch"
  /\ logs' = logs \o failedEntries(send, now)
  /\ send' = NextBatch([send EXCEPT !.totalFailed =
                                      @ + Len(send.batchUsers)],
                       fcmBatchLimit)
  /\ UNCHANGED <<now, fcmBatchLimit, fcmToken, sends, multicasts,
                 outsidePush>>

\* line 287: the insertMany of the catch block throws, and so does the call
CatchThrows ==
  /\ send.pc = "catch"
  /\ \E k \in 0..Len(send.batchUsers) :
       logs' = logs \o SubSeq(failedEntries(send, now), 1, k)
  /\ send' = [send EXCEPT !.pc = "threw"]
  /\ UNCHANGED <<now, fcmBatchLimit, fcmToken, sends, multicasts,
                 outsidePush>>

\* the caller takes the result; the service can be called again
SendEnd ==
  /\ send.pc \in {"returned", "threw"}
  /\ send' = IdleSend
  /\ multicasts' = <<>>
  /\ UNCHANGED <<now, fcmBatchLimit, fcmToken, logs, sends, outsidePush>>

\* the find of lines 326-334
Eligible(topic, tok) ==
  {u \in PushUsers :
     /\ pushUser[u].isActive
     /\ topic \in pushUser[u].subscribedTopics
     /\ tok[u] # Null}

\* sendDailyNotifications, lines 315-370
DailyStart ==
  \E topic \in 1..Len(activeTopics), sid \in SelectionIds :
    LET users == Eligible(topic, fcmToken)
    IN /\ send.pc = "idle"
       /\ SendCall(Entries(users, fcmToken), sid, "daily", topic)

cleanupInvalidTokensMutAll(tok) == [u \in PushUsers |-> Null]

\* the updateMany of lines 479-485
cleanupInvalidTokens(tok) ==
  [u \in PushUsers |-> IF tok[u] = Sentinel THEN Null ELSE tok[u]]

\* scheduledTokenCleanup, lines 499-503
Cleanup ==
  /\ fcmToken' = cleanupInvalidTokens(fcmToken)
  /\ fcmToken' # fcmToken
  /\ UNCHANGED <<now, fcmBatchLimit, logs, send, sends, multicasts,
                 outsidePush>>

(* ----------- NotificationsService.sendToUser, lines 103-168 ------------ *)
\* the caller passes a user and the token stored for that user
UserStart ==
  \E u \in PushUsers, sid \in SelectionIds :
    /\ send.pc = "idle"
    /\ sends < MaxSends
    /\ fcmToken[u] # Null
    /\ sends' = sends + 1
    /\ send' = [IdleSend EXCEPT
                  !.pc = "send", !.caller = "single",
                  !.users = <<[userId |-> u, fcmToken |-> fcmToken[u]]>>,
                  !.batchUsers = <<[userId |-> u, fcmToken |-> fcmToken[u]]>>,
                  !.dailySelectionId = sid, !.firstLog = Len(logs)]
    /\ UNCHANGED <<now, fcmBatchLimit, fcmToken, logs, multicasts,
                   outsidePush>>

\* line 127: messaging().send resolves or rejects
UserSend ==
  /\ send.pc = "send"
  /\ \E r \in Answers(send.users[1].fcmToken) :
       send' = [send EXCEPT !.responses = <<r>>,
                            !.pc = IF r.success THEN "saveSent"
                                   ELSE "saveFailed"]
  /\ UNCHANGED <<now, fcmBatchLimit, fcmToken, logs, sends, multicasts,
                 outsidePush>>

\* lines 129-139
UserSaveSent ==
  /\ send.pc = "saveSent"
  /\ logs' = logs \o logEntries(send, now)
  /\ send' = [send EXCEPT !.pc = "returned", !.totalSent = 1]
  /\ UNCHANGED <<now, fcmBatchLimit, fcmToken, sends, multicasts,
                 outsidePush>>

\* lines 141-150
UserSaveFailed ==
  /\ send.pc = "saveFailed"
  /\ logs' = logs \o logEntries(send, now)
  /\ send' = [send EXCEPT
                !.totalFailed = 1,
                !.pc = IF errorCode(send.responses[1]) \in INVALID_TOKEN_CODES
                         THEN "markInvalid" ELSE "returned"]
  /\ UNCHANGED <<now, fcmBatchLimit, fcmToken, sends, multicasts,
                 outsidePush>>

markTokenInvalidMutNone(tok, id) == tok

\* lines 510-517
markTokenInvalid(tok, id) == [tok EXCEPT ![id] = Sentinel]

\* lines 156 and 166
UserMarkInvalid ==
  /\ send.pc = "markInvalid"
  /\ fcmToken' = markTokenInvalid(fcmToken, send.users[1].userId)
  /\ send' = [send EXCEPT !.pc = "returned"]
  /\ UNCHANGED <<now, fcmBatchLimit, logs, sends, multicasts, outsidePush>>

NextPush ==
  \/ SendStart
  \/ DailyStart
  \/ Multicast
  \/ InsertLogs
  \/ BulkMark
  \/ UserStart
  \/ UserSend
  \/ UserSaveSent
  \/ UserSaveFailed
  \/ UserMarkInvalid
  \/ SendEnd
  \/ Cleanup

SpecPush == InitPush /\ [][NextPush]_vars

NextPushFail ==
  \/ SendStart
  \/ Multicast
  \/ MulticastThrows
  \/ InsertLogs
  \/ InsertThrows
  \/ BulkMark
  \/ BulkMarkThrows
  \/ CatchBatch
  \/ CatchThrows
  \/ SendEnd

SpecPushFail == InitPush /\ [][NextPushFail]_vars

(* ------------ AiAnswersService.nightlyGeneration, lines 334-422 -------- *)
RECURSIVE Ascending(_)
Ascending(S) ==
  IF S = {} THEN <<>>
  ELSE LET x == CHOOSE y \in S : \A z \in S : y <= z
       IN <<x>> \o Ascending(S \ {x})

\* the aggregation of lines 345-364: active questions that have no answer
\* document or a stale one
ToProcess(qs, ans) ==
  Ascending({q \in Questions :
               qs[q].isActive /\ (ans[q] = NoAnswer \/ ans[q].isStale)})

\* answers and questions a nightly run can meet
InitNightly ==
  /\ InitData
  /\ questions \in {[InitQuestions EXCEPT ![3].isActive = a] : a \in BOOLEAN}
  /\ aiAnswers \in
       {ans \in [Questions -> {NoAnswer, [answer |-> 1, isStale |-> FALSE],
                               [answer |-> 1, isStale |-> TRUE]}] :
          /\ ans[1] # NoAnswer
          /\ ans[2] = NoAnswer
          /\ ~ans[3].isStale}
  /\ fcmBatchLimit = NumberLimit
  /\ fcmToken = AllRegistered
  /\ aiBatchSize \in BatchSizes
  /\ answerRows = RowsOf(aiAnswers)
  /\ zone = 0
  /\ stats = NoStats
  /\ payload = NoPayload

\* lines 335-341: the scheduler or the trigger endpoint starts the run, which
\* reads the batch size and issues the aggregation
NightlyStart ==
  /\ nightly.pc = "idle"
  /\ nightly' = [IdleNightly EXCEPT !.pc = "aggregate"]
  /\ attempted' = <<>>
  /\ UNCHANGED <<now, aiAnswers, aiBatchSize, response, genVars, outsideJob>>

\* the item at position pos of the batch goes to generateForQuestion
NightlyGenerate(rec) ==
  /\ nightly' = rec
  /\ GenCall("nightly", rec.batch[rec.pos])
  /\ attempted' = Append(attempted, rec.batch[rec.pos])

\* lines 345-381: the aggregation answers; with nothing to do the run
\* returns, otherwise the loops enter the first item of the first batch
NightlyAggregate ==
  /\ nightly.pc = "aggregate"
  /\ LET list == ToProcess(questions, aiAnswers) IN
     IF Len(list) = 0
       THEN /\ nightly' = [nightly EXCEPT !.pc = "returned"]
            /\ UNCHANGED <<gen, genPrev, extCalls, outcomes, waits,
                           attempted>>
       ELSE NightlyGenerate(
              [nightly EXCEPT
                 !.pc = "await", !.questionsToProcess = list,
                 !.total = Len(list), !.i = 0, !.pos = 1,
                 !.batch = Slice(list, 0, SliceEnd(0, aiBatchSize))])
  /\ UNCHANGED <<now, aiAnswers, aiBatchSize, response,
                 genCalls, staleMarks, outsideJob>>

\* line 363: the aggregation throws and the run rejects
NightlyAggregateFail ==
  /\ nightly.pc = "aggregate"
  /\ nightly' = [nightly EXCEPT !.pc = "threw"]
  /\ UNCHANGED <<now, aiAnswers, aiBatchSize, attempted,
                 response, genVars, outsideJob>>

NightlyCountMutLost(rec, ok) ==
  IF ok THEN [rec EXCEPT !.succeeded = @ + 1] ELSE rec

\* lines 384-388: succeeded++ after the await, failed++ in the catch
NightlyCount(rec, ok) ==
  IF ok THEN [rec EXCEPT !.succeeded = @ + 1]
  ELSE [rec EXCEPT !.failed = @ + 1]

\* lines 383-402: generateForQuestion has returned or thrown; the item is
\* counted and the loop passes to the next item, to the pause between
\* batches, or to the summary
NightlyTally ==
  /\ nightly.pc = "await"
  /\ GenEnded("nightly")
  /\ LET rec == NightlyCount(nightly, gen["nightly"].pc = "returned") IN
     IF nightly.pos < Len(nightly.batch)
       THEN NightlyGenerate([rec EXCEPT !.pos = @ + 1])
       ELSE /\ nightly' =
                 [rec EXCEPT !.pc =
                    IF SliceEnd(nightly.i, aiBatchSize) >= nightly.total
                      THEN "returned" ELSE "sleep"]
            /\ UNCHANGED <<gen, genPrev, extCalls, outcomes, waits,
                           attempted>>
  /\ UNCHANGED <<now, aiAnswers, aiBatchSize, response,
                 genCalls, staleMarks, outsideJob>>

\* lines 380-381 and 401: the pause ends, i += batchSize, and the loops
\* enter the first item of the next batch
NightlySleep ==
  /\ nightly.pc = "sleep"
  /\ LET i == SliceEnd(nightly.i, aiBatchSize) IN
     NightlyGenerate(
       [nightly EXCEPT
          !.pc = "await", !.i = i, !.pos = 1,
          !.slept = @ + DEFAULT_BATCH_DELAY_MS,
          !.batch = Slice(nightly.questionsToProcess, i,
                          SliceEnd(i, aiBatchSize))])
  /\ UNCHANGED <<now, aiAnswers, aiBatchSize, response,
                 genCalls, staleMarks, outsideJob>>

\* the steps of a run that was started
NightlyProgress ==
  \/ NightlyAggregate
  \/ NightlyAggregateFail
  \/ GenLookup("nightly")
  \/ GenLoadQuestion("nightly")
  \/ GenAttempt("nightly")
  \/ GenSleep("nightly")
  \/ GenSave("nightly")
  \/ NightlyTally
  \/ NightlySleep

NextNightly ==
  \/ NightlyStart
  \/ NightlyAggregate
  \/ NightlyAggregateFail
  \/ GenLookup("nightly")
  \/ GenLoadQuestion("nightly")
  \/ GenAttempt("nightly")
  \/ GenSleep("nightly")
  \/ GenSave("nightly")
  \/ NightlyTally
  \/ NightlySleep
  \/ \E q \in Questions : MarkAsStale(q)

\* every await of a started run is resumed: the database and the model API
\* answer or time out, and the timers of sleep fire
SpecNightlyFair ==
  InitNightly /\ [][NextNightly]_vars /\ WF_vars(NightlyProgress)

(* ---------------------- the two trigger endpoints --------------------- *)
AcknowledgeMutNone(resp, endpoint, message) == resp

\* `return { message }` of the controller method
Acknowledge(resp, endpoint, message) == [resp EXCEPT ![endpoint] = message]

\* DailyFlowController.triggerDailyFlow: the service call runs up to its
\* first await, a catch handler is attached to its promise, and the
\* acknowledgement is returned
TriggerDailyFlow ==
  /\ run["manual"].pc = "idle"
  /\ \E t \in ClockReadings :
       /\ now' = t
       /\ run' = [run EXCEPT !["manual"] =
                    [IdleRun EXCEPT !.pc = "topics",
                                    !.today = getTodayDate(t)]]
  /\ response' = Acknowledge(response, "daily", "Daily flow triggered")
  /\ UNCHANGED <<sel, selects, questions, aiAnswers, selections, nextId,
                 claimN, lastClaimed, streakVars, genVars, pushVars,
                 aiBatchSize, nightly, attempted, docVars>>

\* AiAnswersController.triggerBatchGeneration, in the same way
TriggerBatchGeneration ==
  /\ nightly.pc = "idle"
  /\ nightly' = [IdleNightly EXCEPT !.pc = "aggregate"]
  /\ attempted' = <<>>
  /\ response' = Acknowledge(response, "batch", "Batch generation started")
  /\ UNCHANGED <<now, aiAnswers, aiBatchSize, genVars, outsideJob>>

NextTrigger ==
  \/ TriggerDailyFlow
  \/ LoadTopics("manual")
  \/ LoadTopicsFail("manual")
  \/ ClaimIssue("manual")
  \/ ClaimApply("manual")
  \/ AnswerLookup("manual")
  \/ UpsertStep("manual")
  \/ ReadBack("manual")
  \/ Dispatch("manual")
  \/ DispatchFail("manual")
  \/ UpdateCounter("manual")
  \/ TopicFail("manual")
  \/ TriggerBatchGeneration
  \/ NightlyAggregate
  \/ NightlyAggregateFail
  \/ GenLookup("nightly")
  \/ GenLoadQuestion("nightly")
  \/ GenAttempt("nightly")
  \/ GenSleep("nightly")
  \/ GenSave("nightly")
  \/ NightlyTally

\* one question waits for an answer, so the triggered generation has one
\* batch and no pause between batches
SpecTrigger == Init /\ [][NextTrigger]_vars

(* ---- the upsert of generateForQuestion on documents, lines 257-269 ---- *)
\* question 1 has a stale answer, question 2 none, question 3 a fresh one
InitDocs ==
  /\ InitData
  /\ questions = InitQuestions
  /\ aiAnswers = [InitAnswers EXCEPT ![1].isStale = TRUE]
  /\ fcmBatchLimit = NumberLimit
  /\ fcmToken = AllRegistered
  /\ aiBatchSize = NumberSize
  /\ answerRows = RowsOf(aiAnswers)
  /\ zone = 0
  /\ stats = NoStats
  /\ payload = NoPayload

\* the error of an insert that the unique index rejects
DuplicateKeyError == [status |-> Null, code |-> "E11000", text |-> Null]

\* the _id of a document inserted by caller c
NewRowId(c) == IF c = "nightly" THEN 10 ELSE 20

DuplicateKeyMutNoIndex(rows, q) == FALSE

\* the unique index on questionId, ai-answer.schema.ts lines 20-27: an
\* insert is rejected when a document with the key exists
DuplicateKey(rows, q) == \E r \in rows : r.questionId = q

\* $set: {answer, generatedAt, model, tokenCount, isStale: false} applied
\* to the document of question q
SetAnswer(rows, q, text) ==
  {IF r.questionId = q THEN [r EXCEPT !.answer = text, !.isStale = FALSE]
   ELSE r : r \in rows}

\* one call of generateForQuestion per caller
AnswerCall(c) ==
  /\ gen[c].pc = "idle"
  /\ \E q \in QuestionIds : GenCall(c, q)
  /\ UNCHANGED <<genCalls, staleMarks, now, aiAnswers, outsideGen>>

\* the answer that a finished upsert returns with {new: true}
Saved(c) ==
  [gen EXCEPT ![c].pc = "returned",
              ![c].result = SavedAnswer(gen[c].answer)]

\* findOneAndUpdate looks for a document of the question: one that exists
\* is updated in place, otherwise the upsert goes on to insert
UpsertFind(c) ==
  /\ gen[c].pc = "save"
  /\ IF \E r \in answerRows : r.questionId = gen[c].questionId
       THEN /\ answerRows' =
                 SetAnswer(answerRows, gen[c].questionId, gen[c].answer)
            /\ aiAnswers' = ViewOf(answerRows')
            /\ gen' = Saved(c)
       ELSE /\ gen' = [gen EXCEPT ![c].pc = "insert"]
            /\ UNCHANGED <<answerRows, aiAnswers>>
  /\ UNCHANGED <<genCalls, staleMarks, extCalls, genPrev, outcomes, waits,
                 now, flowVars, streakVars, pushVars, jobVars, zone, stats,
                 payload>>

\* the insert of the upsert: when another insert came first the index
\* rejects this one, and the server either runs the upsert again as an
\* update or the call fails with the duplicate key error
UpsertInsert(c) ==
  /\ gen[c].pc = "insert"
  /\ IF DuplicateKey(answerRows, gen[c].questionId)
       THEN \/ /\ answerRows' =
                    SetAnswer(answerRows, gen[c].questionId, gen[c].answer)
               /\ aiAnswers' = ViewOf(answerRows')
               /\ gen' = Saved(c)
            \/ /\ gen' = [gen EXCEPT ![c].pc = "failed",
                                     ![c].error = DuplicateKeyError]
               /\ UNCHANGED <<answerRows, aiAnswers>>
       ELSE /\ answerRows' =
                 answerRows \cup
                   {[id |-> NewRowId(c), questionId |-> gen[c].questionId,
                     answer |-> gen[c].answer, isStale |-> FALSE]}
            /\ aiAnswers' = ViewOf(answerRows')
            /\ gen' = Saved(c)
  /\ UNCHANGED <<genCalls, staleMarks, extCalls, genPrev, outcomes, waits,
                 now, flowVars, streakVars, pushVars, jobVars, zone, stats,
                 payload>>

\* the nightly run and a manual generate, each with one call, overlapping
NextDocs ==
  \/ \E c \in GenCallers : AnswerCall(c)
  \/ \E c \in GenCallers : GenLookup(c)
  \/ \E c \in GenCallers : GenLoadQuestion(c)
  \/ \E c \in GenCallers : GenAttempt(c)
  \/ \E c \in GenCallers : GenSleep(c)
  \/ \E c \in GenCallers : UpsertFind(c)
  \/ \E c \in GenCallers : UpsertInsert(c)

SpecDocs == InitDocs /\ [][NextDocs]_vars

(* ------------- resetStaleStreaks, lines 538-563 ------------------------ *)
MaxResetNow == 8

\* users of the reset run
Members == {1, 2}

\* new Date(y, m, d) and setHours(0, 0, 0, 0): midnight of local day d as an
\* instant, on a server whose midnight comes z ticks after midnight UTC
LocalMidnight(d, z) == d * TicksPerDay + z

\* getDate() and friends: the local day an instant falls on
LocalDay(t, z) == (t - z) \div TicksPerDay

\* lines 542-544: new Date(); setDate(getDate() - 2); setHours(0, 0, 0, 0)
twoDaysAgo(t, z) == LocalMidnight(LocalDay(t, z) - 2, z)

\* lines 548-549: the filter of the updateMany
IsStale(s, t, z) ==
  /\ s.lastActiveDate # Null
  /\ s.lastActiveDate < twoDaysAgo(t, z)
  /\ s.count > 0

\* lines 546-555: updateMany(filter, {$set: {'streak.count': 0}})
resetStaleStreaks(st, t, z) ==
  [u \in DOMAIN st |->
     IF IsStale(st[u], t, z) THEN [st[u] EXCEPT !.count = 0] ELSE st[u]]

\* streaks as markAsRead leaves them (midnight UTC of the day of the call),
\* as created, and as an earlier reset leaves them
StreakStates ==
  {NoStreak,
   [count |-> 1, lastActiveDate |-> DateOf(0)],
   [count |-> 2, lastActiveDate |-> DateOf(1)],
   [count |-> 0, lastActiveDate |-> DateOf(0)]}

\* the server runs on UTC or on a zone west of it
Zones == {0, 1}

InitReset ==
  /\ now = 0
  /\ questions = InitQuestions
  /\ aiAnswers = InitAnswers
  /\ selections = {}
  /\ nextId = 1
  /\ run = [r \in Runs |-> IdleRun]
  /\ sel = NoSelect
  /\ selects = 0
  /\ claimN = [q \in Questions |-> 0]
  /\ lastClaimed = [i \in 1..Len(activeTopics) |-> Null]
  /\ streak \in [Members -> StreakStates]
  /\ mark = [c \in MarkCallers |-> IdleMark]
  /\ marks = 0
  /\ serial = [u \in Users |-> NoStreak]
  /\ calendar = [u \in Users |-> [count |-> 0, lastDay |-> Null]]
  /\ gen = [c \in GenCallers |-> IdleGen]
  /\ genCalls = 0
  /\ staleMarks = 0
  /\ extCalls = [c \in GenCallers |-> 0]
  /\ genPrev = [c \in GenCallers |-> NoPrev]
  /\ outcomes = [c \in GenCallers |-> <<>>]
  /\ waits = [c \in GenCallers |-> <<>>]
  /\ fcmBatchLimit = NumberLimit
  /\ fcmToken = AllRegistered
  /\ logs = <<>>
  /\ send = IdleSend
  /\ sends = 0
  /\ multicasts = <<>>
  /\ aiBatchSize = NumberSize
  /\ nightly = IdleNightly
  /\ attempted = <<>>
  /\ response = NoResponse
  /\ answerRows = RowsOf(aiAnswers)
  /\ zone \in Zones
  /\ stats = NoStats
  /\ payload = NoPayload

\* time passes
ResetTick ==
  /\ now < MaxResetNow
  /\ now' = now + 1
  /\ UNCHANGED <<aiAnswers, flowVars, streakVars, genVars, pushVars, jobVars,
                 docVars>>

\* @Cron('0 0 * * *'): the scheduler calls the method at local midnight
ResetStaleStreaks ==
  /\ now = LocalMidnight(LocalDay(now, zone), zone)
  /\ streak' = resetStaleStreaks(streak, now, zone)
  /\ UNCHANGED <<now, aiAnswers, flowVars, mark, marks, serial, calendar,
                 genVars, pushVars, jobVars, docVars>>

NextReset ==
  \/ ResetTick
  \/ ResetStaleStreaks

SpecReset == InitReset /\ [][NextReset]_vars

(* ------------------ getDailyStats, lines 573-659 ----------------------- *)
\* dates a caller asks for; Null: no date given
StatDates == {Null, 0, 1}

\* $ifNull: ['$topicDoc.name', 'Unknown']; the name of topic t is written t
Unknown == 0
topicName(t) == IF t \in {activeTopics[i] : i \in 1..Len(activeTopics)}
                  THEN t ELSE Unknown

\* $ifNull: ['$questionDoc.text', 'No question']; the text of q is written q
NoQuestion == 0
questionText(q) == IF q \in Questions THEN q ELSE NoQuestion

\* the documents of the $match stage in the order of the collection
RECURSIVE InOrder(_)
InOrder(rows) ==
  IF rows = {} THEN <<>>
  ELSE LET first == CHOOSE s \in rows : \A t \in rows : s.id <= t.id
       IN <<first>> \o InOrder(rows \ {first})

\* $sum: '$notificationsSent' over the documents of the group
RECURSIVE SumSent(_)
SumSent(docs) ==
  IF docs = <<>> THEN 0
  ELSE Head(docs).notificationsSent + SumSent(Tail(docs))

\* $push of the group stage
Breakdown(docs) ==
  [i \in 1..Len(docs) |->
     [topicName |-> topicName(docs[i].topicId),
      questionText |-> questionText(docs[i].questionId),
      notificationsSent |-> docs[i].notificationsSent]]

DailyStatsMutAnyDate(rows, targetDate) ==
  LET docs == InOrder(rows) IN
  IF docs = <<>>
    THEN [date |-> targetDate, topicsWithContent |-> 0,
          totalNotificationsSent |-> 0, breakdown |-> <<>>]
    ELSE [date |-> targetDate, topicsWithContent |-> Len(docs),
          totalNotificationsSent |-> SumSent(docs),
          breakdown |-> Breakdown(docs)]

\* lines 581-643: the aggregation and the default for an empty result
DailyStats(rows, targetDate) ==
  LET docs == InOrder({s \in rows : s.date = targetDate}) IN
  IF docs = <<>>
    THEN [date |-> targetDate, topicsWithContent |-> 0,
          totalNotificationsSent |-> 0, breakdown |-> <<>>]
    ELSE [date |-> targetDate, topicsWithContent |-> Len(docs),
          totalNotificationsSent |-> SumSent(docs),
          breakdown |-> Breakdown(docs)]

\* line 574: date || this.getTodayDate()
GetDailyStats ==
  \E date \in StatDates :
    LET targetDate == IF date = Null THEN getTodayDate(now) ELSE date IN
    /\ stats' = DailyStats(selections, targetDate)
    /\ UNCHANGED <<answerRows, zone, payload, now, aiAnswers, flowVars, streakVars,
                   genVars, pushVars, jobVars>>

\* the scheduled run of the day next to readers of the statistics
NextStats ==
  \/ StartRun("cron")
  \/ LoadTopics("cron")
  \/ ClaimIssue("cron")
  \/ ClaimApply("cron")
  \/ AnswerLookup("cron")
  \/ UpsertStep("cron")
  \/ ReadBack("cron")
  \/ Dispatch("cron")
  \/ UpdateCounter("cron")
  \/ GetDailyStats

SpecStats == Init /\ [][NextStats]_vars

(* ------ runDailyFlow with the dispatcher it calls, lines 246-288 ------- *)
PreviewLength == 100

\* Question.text: question 1 is longer than a preview, the others are short
questionTextOf ==
  [q \in Questions |->
     IF q = 1 THEN [i \in 1..(PreviewLength + 1) |-> 1] ELSE <<q, q>>]

\* '...'
Ellipsis == <<0, 0, 0>>

\* lines 247-250: text.length > 100 ? text.substring(0, 100) + '...' : text
questionPreview(text) ==
  IF Len(text) > PreviewLength
    THEN SubSeq(text, 1, PreviewLength) \o Ellipsis
    ELSE text

\* lines 252-259: the payload is built from the question this invocation
\* claimed and the id of the selection it read back
PayloadOf(rec, rows) ==
  [title |-> topicName(activeTopics[rec.idx]),
   body |-> questionPreview(questionTextOf[rec.selectedQuestion]),
   data |-> [dailySelectionId |-> rec.dailySelectionId,
             topicId |-> activeTopics[rec.idx]]]

\* lines 263-268 and sendDailyNotifications, lines 315-359: the eligible
\* users are read and sendToMultipleUsers is entered
DayDispatch(r) ==
  /\ run[r].pc = "dispatch"
  /\ send.pc = "idle"
  /\ LET t == activeTopics[run[r].idx]
         users == Entries(Eligible(t, fcmToken), fcmToken)
         total == CeilDiv(Len(users), fcmBatchLimit.n)
         rec == [IdleSend EXCEPT !.users = users,
                                 !.dailySelectionId =
                                   run[r].dailySelectionId,
                                 !.totalBatches = total,
                                 !.firstLog = Len(logs),
                                 !.caller = r, !.topicId = t]
     IN /\ payload' = PayloadOf(run[r], selections)
        /\ send' = IF total = 0 THEN [rec EXCEPT !.pc = "returned"]
                   ELSE [rec EXCEPT !.pc = "multicast",
                                    !.batchUsers =
                                      BatchOf(users, 0, fcmBatchLimit)]
  /\ run' = [run EXCEPT ![r].pc = "sending"]
  /\ UNCHANGED <<now, aiAnswers, questions, selections, nextId, sel, selects,
                 claimN, lastClaimed, streakVars, genVars, fcmBatchLimit,
                 fcmToken, logs, sends, multicasts, jobVars, answerRows,
                 zone, stats>>

\* line 269: topicNotificationsSent = sendResult.sent
DayReturn(r) ==
  /\ run[r].pc = "sending"
  /\ send.pc = "returned"
  /\ run' = [run EXCEPT ![r].pc = "counter",
               ![r].topicNotificationsSent = send.totalSent]
  /\ send' = IdleSend
  /\ multicasts' = <<>>
  /\ UNCHANGED <<now, aiAnswers, questions, selections, nextId, sel, selects,
                 claimN, lastClaimed, streakVars, genVars, fcmBatchLimit,
                 fcmToken, logs, sends, jobVars, docVars>>

\* lines 270-277: the dispatcher threw; the inner catch counts an error and
\* the counter update follows with 0
DayThrow(r) ==
  /\ run[r].pc = "sending"
  /\ send.pc = "threw"
  /\ run' = [run EXCEPT ![r].pc = "counter",
               ![r].summary = Bump(@, "errors", 1)]
  /\ send' = IdleSend
  /\ multicasts' = <<>>
  /\ UNCHANGED <<now, aiAnswers, questions, selections, nextId, sel, selects,
                 claimN, lastClaimed, streakVars, genVars, fcmBatchLimit,
                 fcmToken, logs, sends, jobVars, docVars>>

\* lines 280-285: the updateOne of the counter throws; the catch of the
\* topic counts an error and the loop goes on
CounterFail(r) ==
  /\ run[r].pc = "counter"
  /\ TopicFail(r)

\* an invocation that starts while no other is under way: the scheduled
\* run and a manual trigger that replays the day
DayStart(r) ==
  /\ \A o \in Runs : run[o].pc \in {"idle", "done", "aborted"}
  /\ StartRun(r)

\* the scheduled run and a manual replay of the same day, with the
\* dispatcher and the failures of the gateway and of the counter update
NextDay ==
  \/ \E r \in Runs : DayStart(r)
  \/ \E r \in Runs : LoadTopics(r)
  \/ \E r \in Runs : ClaimIssue(r)
  \/ \E r \in Runs : ClaimApply(r)
  \/ \E r \in Runs : AnswerLookup(r)
  \/ \E r \in Runs : UpsertStep(r)
  \/ \E r \in Runs : ReadBack(r)
  \/ \E r \in Runs : DayDispatch(r)
  \/ Multicast
  \/ MulticastThrows
  \/ InsertLogs
  \/ BulkMark
  \/ CatchBatch
  \/ CatchThrows
  \/ \E r \in Runs : DayReturn(r)
  \/ \E r \in Runs : DayThrow(r)
  \/ \E r \in Runs : UpdateCounter(r)
  \/ \E r \in Runs : CounterFail(r)

\* as Init, with one user who holds a token
InitDay ==
  /\ InitData
  /\ questions = InitQuestions
  /\ aiAnswers = InitAnswers
  /\ fcmBatchLimit = NumberLimit
  /\ fcmToken = [u \in PushUsers |-> IF u = 2 THEN Null ELSE 1]
  /\ aiBatchSize = NumberSize
  /\ answerRows = RowsOf(aiAnswers)
  /\ zone = 0
  /\ stats = NoStats
  /\ payload = NoPayload

SpecDay == InitDay /\ [][NextDay]_vars

(* ------------- UsersService.updateFcmToken, part_012 288-312 ----------- *)
\* the token of a device that registers while the service runs
NewToken == 2

\* findByIdAndUpdate(userId, {$set: {fcmToken: dto.fcmToken}})
updateFcmToken(tok, id, token) == [tok EXCEPT ![id] = token]

\* a user registers the token of a new device
UpdateFcmToken ==
  /\ \E u \in PushUsers : fcmToken' = updateFcmToken(fcmToken, u, NewToken)
  /\ fcmToken' # fcmToken
  /\ UNCHANGED <<now, fcmBatchLimit, logs, send, sends, multicasts,
                 outsidePush>>

\* the dispatcher next to users who register tokens
NextToken ==
  \/ SendStart
  \/ DailyStart
  \/ Multicast
  \/ InsertLogs
  \/ BulkMark
  \/ UserStart
  \/ UserSend
  \/ UserSaveSent
  \/ UserSaveFailed
  \/ UserMarkInvalid
  \/ SendEnd
  \/ Cleanup
  \/ UpdateFcmToken

SpecToken == Init /\ [][NextToken]_vars

(* --------------- a topic without an active question -------------------- *)
\* the questions of one of the two topics are all inactive
InitEmptyTopic ==
  /\ InitData
  /\ \E t \in {activeTopics[i] : i \in 1..Len(activeTopics)} :
       questions = [q \in Questions |->
                      [isActive |-> topicOf[q] # t, lastUsedDate |-> Null,
                       usageCount |-> 0]]
  /\ aiAnswers = InitAnswers
  /\ fcmBatchLimit = NumberLimit
  /\ fcmToken = AllRegistered
  /\ aiBatchSize = NumberSize
  /\ answerRows = RowsOf(aiAnswers)
  /\ zone = 0
  /\ stats = NoStats
  /\ payload = NoPayload

\* the two invocations of the orchestrator with every call answering
NextEmptyTopic ==
  \/ \E r \in Runs : StartRun(r)
  \/ \E r \in Runs : LoadTopics(r)
  \/ \E r \in Runs : ClaimIssue(r)
  \/ \E r \in Runs : ClaimApply(r)
  \/ \E r \in Runs : AnswerLookup(r)
  \/ \E r \in Runs : UpsertStep(r)
  \/ \E r \in Runs : ReadBack(r)
  \/ \E r \in Runs : Dispatch(r)
  \/ \E r \in Runs : UpdateCounter(r)

SpecEmptyTopic == InitEmptyTopic /\ [][NextEmptyTopic]_vars

(* ------- one run of the day with batched dispatch, in order ------------ *)
\* the service constructed with or without FCM_BATCH_LIMIT, every user
\* holding a token
InitOrder ==
  /\ InitData
  /\ questions = InitQuestions
  /\ aiAnswers = InitAnswers
  /\ fcmBatchLimit \in BatchLimits
  /\ fcmToken = AllRegistered
  /\ aiBatchSize = NumberSize
  /\ answerRows = RowsOf(aiAnswers)
  /\ zone = 0
  /\ stats = NoStats
  /\ payload = NoPayload

\* the scheduled run with the dispatcher it calls, the gateway and the
\* store answering or throwing
NextOrder ==
  \/ StartRun("cron")
  \/ LoadTopics("cron")
  \/ ClaimIssue("cron")
  \/ ClaimApply("cron")
  \/ AnswerLookup("cron")
  \/ UpsertStep("cron")
  \/ ReadBack("cron")
  \/ DayDispatch("cron")
  \/ Multicast
  \/ MulticastThrows
  \/ InsertLogs
  \/ InsertThrows
  \/ BulkMark
  \/ BulkMarkThrows
  \/ CatchBatch
  \/ CatchThrows
  \/ DayReturn("cron")
  \/ DayThrow("cron")
  \/ UpdateCounter("cron")

SpecOrder == InitOrder /\ [][NextOrder]_vars

TypeOK ==
  /\ now \in 0..MaxResetNow
  /\ \A c \in MarkCallers :
       mark[c].pc \in {"idle", "selection", "user", "write", "done", "failed"}
  /\ \A c \in GenCallers :
       /\ gen[c].pc \in {"idle", "lookup", "question", "attempt", "sleep",
                         "save", "returned", "failed"}
       /\ gen[c].attempt \in 1..MAX_RETRIES
       /\ extCalls[c] \in 0..MAX_RETRIES
  /\ \A q \in Questions : aiAnswers[q].answer \in Texts \cup {Null}
  /\ \A r \in Runs :
       run[r].pc \in {"idle", "topics", "claim", "claiming", "answer",
                      "upsert", "readback", "dispatch", "counter", "done",
                      "aborted"}

(* ====================== properties of the orchestrator ================== *)
TopicSet == {activeTopics[i] : i \in 1..Len(activeTopics)}

\* the topic whose body invocation r is in
CurTopic(r) == activeTopics[run[r].idx]

InBody(r) ==
  run[r].pc \in {"claiming", "answer", "upsert", "readback", "dispatch",
                 "counter"}

\* C1: for every date and every topic there is at most one DailySelection
\* row, whatever the interleaving of the two invocations.
C1_UniqueSelection ==
  \A s1 \in selections : \A s2 \in selections :
    (s1.date = s2.date /\ s1.topicId = s2.topicId) => s1.id = s2.id

\* two invocations of the same day are both past the upsert of one topic
C1_Witness ==
  \E r1 \in Runs : \E r2 \in Runs :
    /\ r1 # r2
    /\ run[r1].pc = "readback" /\ run[r2].pc = "readback"
    /\ run[r1].idx = run[r2].idx /\ run[r1].today = run[r2].today
    /\ Cardinality(Matching(selections, run[r1].today, CurTopic(r1))) = 1

C3_FailureIsolation ==
  \A r \in Runs :
    /\ run[r].pc = "done" =>
         /\ run[r].attempted = TopicSet
         /\ run[r].idx = Len(activeTopics) + 1
         /\ run[r].summary.topicsProcessed <= Len(activeTopics)
         /\ run[r].summary.errors >=
              Len(activeTopics) - run[r].summary.topicsProcessed
         /\ run[r].summary.errors <= 2 * Len(activeTopics)
    /\ run[r].pc = "aborted" => (run[r].attempted = {} /\ run[r].idx = 1)
    /\ InBody(r) =>
         run[r].summary.errors >= (run[r].idx - 1)
                                    - run[r].summary.topicsProcessed

\* the first topic failed after its claim, the second one was completed
C3_Witness ==
  \E r \in Runs :
    /\ run[r].pc = "done"
    /\ run[r].summary.errors = 1
    /\ run[r].summary.topicsProcessed = 1
    /\ \A q \in Questions : claimN[q] = IF q = 2 THEN 0 ELSE 1
    /\ Matching(selections, run[r].today, activeTopics[1]) = {}
    /\ Matching(selections, run[r].today, activeTopics[2]) # {}

C5_LRUCycle ==
  [][\A q \in Questions :
       (claimN'[q] = claimN[q] + 1
          /\ Cardinality(Candidates(topicOf[q])) >= 2)
       => lastClaimed[topicOf[q]] # q]_vars

\* C6: a claim takes an active question of the topic that was never used,
\* or, when all were used, one with the smallest lastUsedDate; it sets that
\* question's lastUsedDate to the instant read for the claim, adds exactly 1
\* to its usageCount and changes no other question; nothing else changes a
\* question.
C6_ClaimEffect ==
  [][/\ \A q \in Questions :
          claimN'[q] = claimN[q] + 1 =>
            /\ questions[q].isActive
            /\ \A o \in Questions :
                 (topicOf[o] = topicOf[q] /\ questions[o].isActive) =>
                   \/ questions[q].lastUsedDate = Null
                   \/ /\ questions[o].lastUsedDate # Null
                      /\ questions[q].lastUsedDate <= questions[o].lastUsedDate
            /\ questions'[q].usageCount = questions[q].usageCount + 1
            /\ questions'[q].lastUsedDate # Null
            /\ questions'[q].lastUsedDate <= now
            /\ \E r \in Runs :
                 /\ run[r].pc = "claiming" /\ run'[r].pc = "answer"
                 /\ run'[r].selectedQuestion = q
                 /\ questions'[q].lastUsedDate = run[r].claimTs
            /\ \A o \in Questions \ {q} : questions'[o] = questions[o]
     /\ questions' # questions =>
          \E q \in Questions : claimN'[q] = claimN[q] + 1]_vars

\* the never-used question was taken although its sibling had been used
C6_Witness ==
  \E r \in Runs :
    /\ run[r].pc = "answer"
    /\ run[r].selectedQuestion = 2
    /\ questions[1].lastUsedDate # Null
    /\ questions[2].usageCount = 1
    /\ questions[2].lastUsedDate = run[r].claimTs

\* C7: once set, the lastUsedDate of a question never decreases and never
\* returns to null.
C7_LastUsedMonotonic ==
  [][\A q \in Questions :
       questions[q].lastUsedDate # Null =>
         /\ questions'[q].lastUsedDate # Null
         /\ questions'[q].lastUsedDate >= questions[q].lastUsedDate]_vars

(* ================= properties of the streak bookkeeping ================= *)
\* C8: while no markAsRead is in flight, a user's streak.count is the number
\* of consecutive calendar days with a call that end at the last day with a
\* call: N after N consecutive days, unchanged by a same-day repeat, 1 after
\* a skipped day.  The calls are made one after the other.
C8_StreakCountsDays ==
  (\A c \in MarkCallers : MarkEnded(c)) =>
     \A u \in Users : streak[u].count = calendar[u].count

\* C9: when all markAsRead calls have ended, each user's streak is the one
\* that the same calls leave when they are executed one at a time in the
\* order of their dates.
C9_StreakSerializable ==
  (\A c \in MarkCallers : MarkEnded(c)) =>
     \A u \in Users : streak[u] = serial[u]

(* ================== properties of the answer generator ================== *)
\* the only calls made so far are two successive ones of caller c for the
\* same existing question, which had no answer before them
GenPair(c) ==
  /\ genPrev[c].n = 1
  /\ genPrev[c].questionId = gen[c].questionId
  /\ gen[c].questionId \in Questions
  /\ InitAnswers[gen[c].questionId] = NoAnswer
  /\ staleMarks = 0
  /\ \A o \in GenCallers \ {c} : gen[o].pc = "idle"

\* C10 as stated: two successive calls for a question that starts without
\* an answer make exactly one external call in total.
C10_PairMakesOneExternalCall ==
  \A c \in GenCallers :
    (GenPair(c) /\ GenEnded(c)) => genPrev[c].calls + extCalls[c] = 1

\* C10 amended: a call that finds a non-stale answer returns it, writes
\* nothing and makes no external call; of two successive calls for a
\* question that starts without an answer the first makes one external call
\* per attempt, 1 to MAX_RETRIES of them, and when it succeeded the second
\* returns the answer the first one saved and makes no external call.
C10_FreshAnswerIsCacheHit ==
  /\ [][\A c \in GenCallers :
          LET q == gen[c].questionId IN
          (gen[c].pc = "lookup" /\ gen'[c].pc # "lookup" /\ q \in Questions
             /\ aiAnswers[q].answer # Null /\ ~aiAnswers[q].isStale)
          => /\ gen'[c].pc = "returned"
             /\ gen'[c].result = aiAnswers[q]
             /\ aiAnswers' = aiAnswers
             /\ extCalls' = extCalls]_vars
  /\ [](\A c \in GenCallers :
          (GenPair(c) /\ GenEnded(c)) =>
            /\ genPrev[c].calls \in 1..MAX_RETRIES
            /\ genPrev[c].ok =>
                 /\ gen[c].pc = "returned"
                 /\ extCalls[c] = 0
                 /\ gen[c].result = genPrev[c].result
                 /\ aiAnswers[gen[c].questionId] = genPrev[c].result)

\* the first call needed a retry, the second one was served from the store
C10_Witness ==
  \E c \in GenCallers :
    /\ GenPair(c)
    /\ gen[c].pc = "returned"
    /\ genPrev[c].ok
    /\ genPrev[c].calls = 2
    /\ extCalls[c] = 0

\* C11: generateAnswer makes at most 3 attempts; every attempt but the last
\* one ended in a retryable failure (HTTP 429, a 5xx, or a transient network
\* error); a failure that is not retryable, or the third failure, ends the
\* call with the error of that attempt; a retryable failure before the
\* third attempt never ends the call; a success ends it with the text of
\* that attempt.
C11_RetryPolicy ==
  \A c \in GenCallers :
    LET n == Len(outcomes[c])
        Retryable(o) ==
          \/ o.status = 429
          \/ o.status \in 500..599
          \/ o.code \in {"ECONNRESET", "ETIMEDOUT", "ENOTFOUND", "EAI_AGAIN"}
    IN
    /\ n <= 3
    /\ n = extCalls[c]
    /\ \A k \in 1..(n - 1) :
         outcomes[c][k] \in Errors /\ Retryable(outcomes[c][k])
    /\ (n > 0 /\ gen[c].pc \in {"save", "returned"}) =>
         /\ outcomes[c][n] \in Successes
         /\ gen[c].answer = outcomes[c][n].text
    /\ (n > 0 /\ gen[c].pc = "failed") =>
         /\ outcomes[c][n] \in Errors
         /\ gen[c].error = outcomes[c][n]
         /\ ~Retryable(outcomes[c][n]) \/ n = 3
    /\ (n > 0 /\ outcomes[c][n] \in Successes) =>
         gen[c].pc \in {"save", "returned"}
    /\ (n > 0 /\ outcomes[c][n] \in Errors
           /\ (~Retryable(outcomes[c][n]) \/ n = 3)) => gen[c].pc = "failed"
    /\ gen[c].pc \in {"sleep", "attempt"} =>
         /\ n < 3
         /\ n > 0 => Retryable(outcomes[c][n])

\* a 429, a connection reset and a 500: the third failure is surfaced
C11_Witness ==
  \E c \in GenCallers :
    /\ gen[c].pc = "failed"
    /\ Len(outcomes[c]) = 3
    /\ outcomes[c][1].status = 429
    /\ outcomes[c][2].code = "ECONNRESET"
    /\ outcomes[c][3].status = 500
    /\ gen[c].error.status = 500

\* C12: the wait before attempt k+1 is 1000 ms * 2^(k-1): 1000 before
\* attempt 2 and 2000 before attempt 3; every wait follows a retryable
\* failure and precedes an attempt, and none follows the last attempt; two
\* 429s and a success are 3 calls with waits 1000 and 2000 that return the
\* text of the success.
C12_BackoffWaits ==
  \A c \in GenCallers :
    LET n == Len(outcomes[c])
        w == Len(waits[c])
    IN
    /\ w = IF gen[c].pc = "attempt" \/ n = 0 THEN n ELSE n - 1
    /\ w >= 1 => waits[c][1] = 1000
    /\ w >= 2 => waits[c][2] = 2000
    /\ w <= 2
    /\ \A k \in 1..w :
         /\ outcomes[c][k] \in Errors
         /\ \/ outcomes[c][k].status = 429
            \/ outcomes[c][k].status \in 500..599
            \/ outcomes[c][k].code \in
                 {"ECONNRESET", "ETIMEDOUT", "ENOTFOUND", "EAI_AGAIN"}
    /\ (n = 3 /\ outcomes[c][1].status = 429 /\ outcomes[c][2].status = 429
           /\ outcomes[c][3] \in Successes) =>
         /\ extCalls[c] = 3
         /\ waits[c] = <<1000, 2000>>
         /\ gen[c].pc \in {"save", "returned"}
         /\ gen[c].answer = outcomes[c][3].text

\* two 429s, then a success whose text was saved and returned
C12_Witness ==
  \E c \in GenCallers :
    /\ gen[c].pc = "returned"
    /\ Len(outcomes[c]) = 3
    /\ outcomes[c][1].status = 429 /\ outcomes[c][2].status = 429
    /\ outcomes[c][3] \in Successes
    /\ waits[c] = <<1000, 2000>>
    /\ gen[c].result.answer = outcomes[c][3].text

\* the NotificationLog rows written by the sendToMultipleUsers call
RowsOfCall == SubSeq(logs, send.firstLog + 1, Len(logs))

\* C13: when a sendToMultipleUsers call over n recipients with batch limit L
\* has returned, it has made ceil(n/L) multicast calls, none carried more
\* than L recipients, every recipient is in exactly one of them, and the
\* call wrote exactly one NotificationLog row per recipient.
C13_BatchesPartitionRecipients ==
  send.pc = "returned" =>
    LET n == Len(send.users)
        L == fcmBatchLimit.n
        places(u) == {<<i, k>> \in (1..Len(multicasts)) \X (1..n) :
                        k <= Len(multicasts[i]) /\ multicasts[i][k] = u}
        rows(u) == {i \in 1..Len(RowsOfCall) : RowsOfCall[i].userId = u}
    IN /\ Len(multicasts) = CeilDiv(n, L)
       /\ \A i \in 1..Len(multicasts) : Len(multicasts[i]) <= L
       /\ \A j \in 1..n :
            /\ Cardinality(places(send.users[j].userId)) = 1
            /\ Cardinality(rows(send.users[j].userId)) = 1

\* C14: with the batch limit left at its default, when a
\* sendToMultipleUsers call in which the processing of a batch may throw
\* has returned, its totals add up to the number of recipients and its
\* sent total is the number of sent rows that the call wrote.
C14_BatchFailureContained ==
  (fcmBatchLimit = NumberLimit /\ send.pc = "returned") =>
    /\ send.totalSent + send.totalFailed = Len(send.users)
    /\ send.totalSent =
         Cardinality({i \in 1..Len(RowsOfCall) :
                        RowsOfCall[i].status = "sent"})

\* C15: the recipients that a sendDailyNotifications call hands to
\* sendToMultipleUsers are exactly the active users subscribed to the topic
\* whose token was neither null nor the sentinel at the time of the query,
\* and a call that found nobody has returned {sent: 0, failed: 0} without
\* a gateway call.
C15_OnlyValidTokensDispatched ==
  send.caller = "daily" =>
    /\ \A i \in 1..Len(send.users) :
         /\ send.users[i].fcmToken \notin {Null, Sentinel}
         /\ pushUser[send.users[i].userId].isActive
         /\ send.topicId \in pushUser[send.users[i].userId].subscribedTopics
    /\ Len(send.users) = 0 =>
         /\ send.pc = "returned"
         /\ send.totalSent = 0 /\ send.totalFailed = 0
         /\ multicasts = <<>>

\* the single recipient of a sendToUser call and the gateway's answer
OneUser == send.users[1].userId

OneAnswer == send.responses[1]

\* C16: a sendToUser call that has returned wrote exactly one
\* NotificationLog row: a sent row with its timestamp if the gateway
\* accepted the message, and otherwise a failed row whose error is
\* 'code: message'; and the steps of the call change no token except that
\* the step that ends a call whose failure code is an invalid or
\* unregistered token code sets the user's token to the sentinel.
C16_SendToUserOutcome ==
  /\ [](send.caller = "single" /\ send.pc = "returned" =>
          /\ Len(RowsOfCall) = 1
          /\ RowsOfCall[1].userId = OneUser
          /\ RowsOfCall[1].sentAt # Null
          /\ OneAnswer.success =>
               RowsOfCall[1].status = "sent" /\ RowsOfCall[1].error = <<>>
          /\ ~OneAnswer.success =>
               /\ RowsOfCall[1].status = "failed"
               /\ RowsOfCall[1].error =
                    <<IF OneAnswer.code = "undefined" THEN "unknown"
                      ELSE OneAnswer.code,
                      IF OneAnswer.message = "undefined"
                        THEN "Unknown error" ELSE OneAnswer.message>>)
  /\ [][(send'.caller = "single" /\ send' # send) =>
          IF /\ send'.pc = "returned"
             /\ ~send'.responses[1].success
             /\ send'.responses[1].code \in
                  {"messaging/invalid-registration-token",
                   "messaging/registration-token-not-registered"}
            THEN /\ fcmToken'[send'.users[1].userId] = Sentinel
                 /\ \A u \in PushUsers \ {send'.users[1].userId} :
                      fcmToken'[u] = fcmToken[u]
            ELSE fcmToken' = fcmToken]_vars

\* a call with a device token was rejected as unregistered and has returned
C16_Witness ==
  /\ send.caller = "single" /\ send.pc = "returned"
  /\ send.users[1].fcmToken = 1
  /\ OneAnswer.code = "messaging/registration-token-not-registered"
  /\ fcmToken[OneUser] = Sentinel
  /\ Len(RowsOfCall) = 1

\* the codes that flag a token, as the specification lists them
InvalidCodes ==
  {"messaging/invalid-registration-token",
   "messaging/registration-token-not-registered"}

\* C17: the step that completes a batch of sendToMultipleUsers leaves, for
\* every recipient of the batch whose response carries an invalid-token
\* code, exactly one row among the rows of the batch, a failed one with that
\* code, and the sentinel as the recipient's token; and a run of
\* cleanupInvalidTokens sets to null the token of exactly the users that
\* held the sentinel, changes no other token, and leaves no user with the
\* sentinel.
C17_FlagThenCleanup ==
  /\ [][(send.caller \in {"direct", "daily"} /\
         send'.batchIndex = send.batchIndex + 1) =>
          LET b == send.batchUsers
              rows == SubSeq(logs', Len(logs') - Len(b) + 1, Len(logs'))
          IN \A i \in 1..Len(b) :
               (~send.responses[i].success /\
                send.responses[i].code \in InvalidCodes) =>
                 /\ Cardinality({k \in 1..Len(b) :
                                   rows[k].userId = b[i].userId}) = 1
                 /\ rows[i].userId = b[i].userId
                 /\ rows[i].status = "failed"
                 /\ rows[i].error[1] = send.responses[i].code
                 /\ fcmToken'[b[i].userId] = Sentinel]_vars
  /\ [][(send' = send /\ fcmToken' # fcmToken) =>
          \A u \in PushUsers :
            /\ fcmToken[u] = Sentinel => fcmToken'[u] = Null
            /\ fcmToken[u] # Sentinel => fcmToken'[u] = fcmToken[u]
            /\ fcmToken'[u] # Sentinel]_vars

\* a recipient that held a device token was rejected as unregistered in a
\* batch of three, was flagged, and the cleanup has since set its token to
\* null while another recipient keeps its token
C17_Witness ==
  /\ send.pc = "returned" /\ send.caller = "direct"
  /\ Len(send.users) = 3
  /\ \E i \in 1..3 :
       /\ send.users[i].fcmToken = 1
       /\ fcmToken[send.users[i].userId] = Null
       /\ \E k \in 1..Len(RowsOfCall) :
            /\ RowsOfCall[k].userId = send.users[i].userId
            /\ RowsOfCall[k].status = "failed"
            /\ RowsOfCall[k].error[1] \in InvalidCodes
  /\ \E j \in 1..3 : fcmToken[send.users[j].userId] = 1

\* C18: a markAsRead call ends with NotFound exactly when its selection or
\* its user does not exist, a call that reaches the streak update has both,
\* and no step of a call whose selection or user does not exist changes a
\* streak, a selection or a question.
C18_NotFoundChangesNothing ==
  /\ [](\A c \in MarkCallers :
          LET missing ==
                \/ ~\E row \in selections : row.id = mark[c].dailySelectionId
                \/ mark[c].userId \notin Users
          IN /\ mark[c].pc = "failed" => missing
             /\ mark[c].pc \in {"write", "done"} => ~missing)
  /\ [][\A c \in MarkCallers :
          (/\ mark'[c] # mark[c]
           /\ \/ ~\E row \in selections :
                    row.id = mark'[c].dailySelectionId
              \/ mark'[c].userId \notin Users) =>
            /\ mark'[c].pc \in {"selection", "user", "failed"}
            /\ streak' = streak
            /\ selections' = selections
            /\ questions' = questions
            /\ aiAnswers' = aiAnswers]_vars

\* a call for a user that does not exist has failed after the streak of the
\* existing user was counted by another call
C18_Witness ==
  \E c \in MarkCallers :
    /\ mark[c].pc = "failed"
    /\ mark[c].userId \notin Users
    /\ \E row \in selections : row.id = mark[c].dailySelectionId
    /\ \E u \in Users : streak[u].count = 1

\* C20: the list a nightlyGeneration run works on holds, once each, the
\* active questions that had no answer or a stale answer when its query was
\* answered; the run passes them to generateForQuestion one after the other
\* in that order, each once, counting every call as succeeded or failed and
\* going on after a failure; a started run terminates; and when it has
\* returned succeeded + failed is the number of questions found.
C20_NightlyCoversEveryQuestion ==
  /\ [][(nightly.pc = "aggregate" /\ nightly'.pc \in {"await", "returned"})
          => LET list == nightly'.questionsToProcess IN
             /\ \A q \in Questions :
                  (questions[q].isActive /\
                   (aiAnswers[q] = NoAnswer \/ aiAnswers[q].isStale))
                    <=> \E k \in 1..Len(list) : list[k] = q
             /\ \A j, k \in 1..Len(list) : list[j] = list[k] => j = k]_vars
  /\ [](nightly.pc \in {"await", "sleep", "returned"} =>
          /\ Len(attempted) <= nightly.total
          /\ attempted =
               SubSeq(nightly.questionsToProcess, 1, Len(attempted))
          /\ nightly.succeeded + nightly.failed =
               Len(attempted) - (IF nightly.pc = "await" THEN 1 ELSE 0))
  /\ [](nightly.pc = "returned" =>
          /\ attempted = nightly.questionsToProcess
          /\ nightly.succeeded + nightly.failed = nightly.total)
  /\ (nightly.pc = "aggregate") ~> (nightly.pc \in {"returned", "threw"})

\* a run over three questions in more than one batch has returned with a
\* failure counted before a success
C20_Witness ==
  /\ nightly.pc = "returned"
  /\ nightly.total = 3
  /\ nightly.slept > 0
  /\ nightly.failed >= 1
  /\ nightly.succeeded >= 1
  /\ gen["nightly"].pc = "returned"

\* C19: from the step that starts a triggered daily flow or a triggered
\* batch generation on, the endpoint has answered with its fixed
\* acknowledgement, whatever position the run is in and whether it ends
\* normally or by failing, and no step of the run changes the answer.
C19_TriggerAcknowledgedAtOnce ==
  /\ [](/\ run["manual"].pc # "idle" =>
             response.daily = "Daily flow triggered"
        /\ run["manual"].pc = "idle" => response.daily = "none"
        /\ nightly.pc # "idle" => response.batch = "Batch generation started"
        /\ nightly.pc = "idle" => response.batch = "none")
  /\ [][\A e \in {"daily", "batch"} :
          response[e] # "none" => response'[e] = response[e]]_vars

\* both endpoints have answered; the daily flow they started has since
\* failed and the batch generation is still waiting for the model API
C19_Witness ==
  /\ response.daily = "Daily flow triggered"
  /\ run["manual"].pc = "aborted"
  /\ response.batch = "Batch generation started"
  /\ nightly.pc = "await"
  /\ gen["nightly"].pc = "attempt"

\* C21: there is never more than one AiAnswer document for a question, also
\* while two generateForQuestion calls for the same question overlap; and a
\* call that saves an answer for a question that has a document leaves the
\* documents the same in number and identity, with the text of the call and
\* the stale flag cleared on the document of the question and every other
\* document as it was.
C21_OneAnswerPerQuestion ==
  /\ [](\A q \in Questions :
          Cardinality({r \in answerRows : r.questionId = q}) <= 1)
  /\ [][\A c \in GenCallers :
          (/\ gen[c].pc \in {"save", "insert"}
           /\ gen'[c].pc = "returned"
           /\ \E r \in answerRows : r.questionId = gen[c].questionId) =>
            /\ {r.id : r \in answerRows'} = {r.id : r \in answerRows}
            /\ Cardinality(answerRows') = Cardinality(answerRows)
            /\ \A r \in answerRows' :
                 IF r.questionId = gen[c].questionId
                   THEN r.answer = gen[c].answer /\ ~r.isStale
                   ELSE r \in answerRows]_vars

\* both callers generated for question 2, which had no answer, at the same
\* time: both went on to insert, one document exists, and the later caller
\* has returned too
C21_Witness ==
  /\ gen["nightly"].questionId = 2 /\ gen["manual"].questionId = 2
  /\ gen["nightly"].pc = "returned" /\ gen["manual"].pc = "returned"
  /\ extCalls["nightly"] > 0 /\ extCalls["manual"] > 0
  /\ Cardinality(answerRows) = 3
  /\ \E r \in answerRows : r.questionId = 2 /\ r.id = NewRowId("manual")

\* C22: every persisted NotificationLog row has status sent or failed, never
\* pending or delivered, and no step of the dispatcher changes or removes a
\* row that is already persisted: the collection only grows at its end.
C22_LogRowsFinalAndImmutable ==
  /\ [](\A i \in 1..Len(logs) : logs[i].status \in {"sent", "failed"})
  /\ [][/\ Len(logs') >= Len(logs)
        /\ \A i \in 1..Len(logs) : logs'[i] = logs[i]]_vars

\* a dispatch has returned after persisting a sent row and a failed row
C22_Witness ==
  /\ send.pc = "returned"
  /\ \E i, j \in 1..Len(logs) :
       logs[i].status = "sent" /\ logs[j].status = "failed"

\* C23: a run of resetStaleStreaks sets the count to 0 for exactly the users
\* whose lastActiveDate is more than 2 days before the current date and
\* whose count is positive, keeps the lastActiveDate of those users, and
\* leaves the streak of every other user as it was.
C23_ResetExactlyStale ==
  [][streak' # streak =>
       \A u \in Members :
         IF /\ streak[u].lastActiveDate # Null
            /\ getTodayDate(now) - getTodayDate(streak[u].lastActiveDate) > 2
            /\ streak[u].count > 0
           THEN streak'[u] = [streak[u] EXCEPT !.count = 0]
           ELSE streak'[u] = streak[u]]_vars

RECURSIVE TotalSent(_)
TotalSent(rows) ==
  IF rows = {} THEN 0
  ELSE LET s == CHOOSE x \in rows : TRUE
       IN s.notificationsSent + TotalSent(rows \ {s})

\* C24: a call of getDailyStats for date d returns the number of
\* DailySelections of date d as topicsWithContent, the sum of their
\* notificationsSent as totalNotificationsSent and one breakdown entry per
\* such selection; without a selection of d it returns zeros and an empty
\* breakdown; the call changes nothing but its own result.
C24_DailyStats ==
  [][stats' # stats =>
       LET rows == {s \in selections : s.date = stats'.date} IN
       /\ stats'.topicsWithContent = Cardinality(rows)
       /\ stats'.totalNotificationsSent = TotalSent(rows)
       /\ Len(stats'.breakdown) = Cardinality(rows)
       /\ \A s \in rows : \E i \in 1..Len(stats'.breakdown) :
            /\ stats'.breakdown[i].topicName = s.topicId
            /\ stats'.breakdown[i].questionText = s.questionId
            /\ stats'.breakdown[i].notificationsSent = s.notificationsSent
       /\ rows = {} => stats'.breakdown = <<>>
       /\ UNCHANGED <<answerRows, zone, payload, now, aiAnswers, flowVars, streakVars,
                      genVars, pushVars, jobVars>>]_vars

\* statistics were read for a day with a selection per topic and
\* notifications counted
C24_Witness ==
  /\ stats.topicsWithContent = 2
  /\ stats.totalNotificationsSent > 0
  /\ Len(stats.breakdown) = 2
  /\ stats.breakdown[1].topicName # stats.breakdown[2].topicName

(* ================= properties of a day with its replay ================ *)
\* no invocation of runDailyFlow and no dispatch is under way
DayQuiet ==
  /\ \A r \in Runs : run[r].pc \in {"idle", "done", "aborted"}
  /\ send.pc = "idle"

\* NotificationLog rows with status sent that reference selection sid
SentRows(sid) ==
  {i \in 1..Len(logs) :
     logs[i].dailySelectionId = sid /\ logs[i].status = "sent"}

\* C27: whenever the invocations of runDailyFlow made so far have completed,
\* the notificationsSent of each DailySelection equals the number of
\* NotificationLog rows with status sent that reference it; and when the
\* dispatcher throws for a topic, the invocation counts one error, passes 0
\* to the counter update and goes on to it.
C27_CounterMatchesSentRows ==
  /\ [](DayQuiet =>
          \A s \in selections :
            s.notificationsSent = Cardinality(SentRows(s.id)))
  /\ [][\A r \in Runs :
          (run[r].pc = "sending" /\ send.pc = "threw"
             /\ run'[r].pc # "sending") =>
            /\ run'[r].pc = "counter"
            /\ run'[r].topicNotificationsSent = 0
            /\ run'[r].summary.errors = run[r].summary.errors + 1]_vars

\* C28: every dispatch of runDailyFlow for a topic carries the id of the
\* DailySelection of (today, topic) and a body that is the truncated text
\* of the question recorded in that selection, also in a replay that found
\* the selection present.
C28_PayloadMatchesSelection ==
  [][\A r \in Runs :
       (run[r].pc = "dispatch" /\ run'[r].pc = "sending") =>
         \E s \in selections :
           /\ s.date = run[r].today
           /\ s.topicId = activeTopics[run[r].idx]
           /\ payload'.data.dailySelectionId = s.id
           /\ send'.dailySelectionId = s.id
           /\ payload'.body = questionPreview(questionTextOf[s.questionId])]_vars

\* C30: for every user and every DailySelection there is at most one
\* NotificationLog row with status sent, however often runDailyFlow is
\* invoked on the date.
C30_OneSentRowPerUserAndSelection ==
  \A u \in PushUsers : \A sid \in SelectionIds :
    Cardinality({i \in 1..Len(logs) :
                   /\ logs[i].userId = u
                   /\ logs[i].dailySelectionId = sid
                   /\ logs[i].status = "sent"}) <= 1

\* C29: a step that flags a user's token as invalid replaces the token the
\* gateway rejected, that is the token the dispatch in flight sent to: a
\* token registered since is not overwritten with the sentinel (and so not
\* nulled by the next cleanup).
C29_FlagOnlyRejectedToken ==
  [][\A u \in PushUsers :
       (fcmToken'[u] = Sentinel /\ fcmToken[u] # Sentinel) =>
         \E i \in 1..Len(send.batchUsers) :
           /\ send.batchUsers[i].userId = u
           /\ send.batchUsers[i].fcmToken = fcmToken[u]]_vars

\* topic t has no active question
NoActiveQuestion(t) ==
  \A q \in Questions : topicOf[q] = t => ~questions[q].isActive

\* C26: when the claim of a topic finds no active question, the invocation
\* counts exactly one error for the topic, creates no DailySelection,
\* changes no question and goes on with the next topic (or ends after the
\* last one); no selection exists for such a topic and no invocation ever
\* reaches the dispatch for it.
C26_NoActiveQuestion ==
  /\ [](\A r \in Runs :
          (run[r].pc \in {"answer", "upsert", "readback", "dispatch",
                          "counter"}) =>
            ~NoActiveQuestion(activeTopics[run[r].idx]))
  /\ [](\A s \in selections : ~NoActiveQuestion(s.topicId))
  /\ [][\A r \in Runs :
          (/\ run[r].pc = "claiming"
           /\ NoActiveQuestion(activeTopics[run[r].idx])
           /\ run'[r] # run[r]) =>
            /\ run'[r].summary.errors = run[r].summary.errors + 1
            /\ run'[r].summary.topicsProcessed =
                 run[r].summary.topicsProcessed
            /\ selections' = selections
            /\ questions' = questions
            /\ run'[r].idx = run[r].idx + 1
            /\ run'[r].pc = IF run[r].idx < Len(activeTopics)
                              THEN "claim" ELSE "done"]_vars

\* an invocation is through: the first topic had no active question and
\* cost one error, the second topic was processed and has its selection
C26_Witness ==
  \E r \in Runs :
    /\ run[r].pc = "done"
    /\ NoActiveQuestion(activeTopics[1])
    /\ run[r].summary.errors = 1
    /\ run[r].summary.topicsProcessed = 1
    /\ \E s \in selections : s.topicId = activeTopics[2]

=============================================================================
